---------------------------- MODULE Spec2Model ----------------------------
(***************************************************************************)
(* A model of the symlink reconciliation engine of lnkit/ghostow.          *)
(*                                                                         *)
(* Two generations of the engine are in the source tree and both are       *)
(* modelled; the variable ver says which one a behaviour runs:             *)
(*   "lnkit"  the link/unlink/stats engine driven by main                  *)
(*            (createSymlinks, removeSymlinks, gatherStats, walkSourceRec  *)
(*            with sourceDir/targetDir);                                   *)
(*   "lnk"    the cobra `link link_path target_path` command               *)
(*            (runLink, createSymlinks, walkSourceRec with                 *)
(*            linkRoot/targetRoot).                                        *)
(* Both sit on the same fileutil package and the same filesystem.          *)
(*                                                                         *)
(* A path is a sequence of names, <<>> being "/".  The filesystem maps the *)
(* physical location of every existing entry to a node: a regular file     *)
(* with a content, a directory, or a symlink with a link value.            *)
(***************************************************************************)
EXTENDS Naturals, Sequences, FiniteSets, TLC

VARIABLES
    ver,        \* which generation of the engine runs: "lnkit" or "lnk"
    fs,         \* the filesystem: physical location -> node
    cwd,        \* the working directory of the process
    cfg,        \* the options of the configuration file / command flags
    sourceDir,  \* sourceDir of lnkit, targetRoot of lnk: the tree that is walked
    targetDir,  \* targetDir of lnkit, linkRoot of lnk: where the links go
    pc,         \* "idle" between commands, "walk" inside filepath.Walk
    cmd,        \* the command of the current run
    todo,       \* the entries filepath.Walk still has to visit, in order
    visit,      \* what the walk callback did with the entry it visited last
    stats,      \* the Stats value gatherStats accumulates
    walkErr,    \* the error the walk of the current run returned, if any
    deny,       \* the directories the process may not list, or not write in
    hist,       \* history: the runs so far and the trees they started from
    yml         \* the round trip of package ymlfs: its input, position and output

---------------------------------------------------------------------------
(* Names and their spelling (glob matching and prefix tests read characters) *)

Spell(name) ==
    CASE name = ".git" -> <<".", "g", "i", "t">>
      [] name = "..c"  -> <<".", ".", "c">>
      [] OTHER         -> <<name>>

---------------------------------------------------------------------------
(* Paths *)

Root == <<>>

Front(p) == SubSeq(p, 1, Len(p) - 1)

Base(p) == p[Len(p)]

Join(a, b) == a \o b

IsPrefix(a, b) == Len(a) <= Len(b) /\ SubSeq(b, 1, Len(a)) = a

IsStrictPrefix(a, b) == Len(a) < Len(b) /\ SubSeq(b, 1, Len(a)) = a

---------------------------------------------------------------------------
(* Nodes *)

FileNode(c) == [kind |-> "file", content |-> c, abs |-> TRUE, val |-> <<>>]

DirNode == [kind |-> "dir", content |-> "", abs |-> TRUE, val |-> <<>>]

LinkNode(a, v) == [kind |-> "link", content |-> "", abs |-> a, val |-> v]

(* The number of symlinks one path resolution follows before it gives up *)
(* (ELOOP).                                                              *)
MaxFollow == 3

Bad == [ok |-> FALSE, p |-> <<>>]

Good(q) == [ok |-> TRUE, p |-> q]

(* The path a symlink stored at physical location q designates: its value *)
(* when absolute, else its value taken from the directory that holds it.  *)
LinkDest(q, node) == IF node.abs THEN node.val ELSE Front(q) \o node.val

(* Kernel path resolution.  Every component but the last is followed      *)
(* through symlinks and must be a directory; the last one is followed     *)
(* only when follow is set.  The result is the physical location the path *)
(* names, which need not exist.  NameiIn resolves the last name of a path *)
(* in its resolved parent par.                                            *)
RECURSIVE Namei(_, _, _, _)
RECURSIVE NameiIn(_, _, _, _, _)
Namei(f, p, follow, n) ==
    IF p = <<>> THEN Good(<<>>)
    ELSE NameiIn(f, Namei(f, Front(p), TRUE, n), Base(p), follow, n)

NameiIn(f, par, name, follow, n) ==
    IF ~par.ok THEN Bad
    ELSE IF par.p \notin DOMAIN f THEN Bad
    ELSE IF f[par.p].kind # "dir" THEN Bad
    ELSE IF follow /\ Append(par.p, name) \in DOMAIN f
                   /\ f[Append(par.p, name)].kind = "link"
         THEN IF n = 0 THEN Bad
              ELSE Namei(f, LinkDest(Append(par.p, name), f[Append(par.p, name)]),
                         TRUE, n - 1)
    ELSE Good(Append(par.p, name))

(* A resolved location counts when an entry is there *)
Found(f, r) == IF r.ok /\ r.p \in DOMAIN f THEN r ELSE Bad

(* os.Lstat: the entry a path names, symlinks not followed at the end *)
Lstat(f, p) == Found(f, Namei(f, p, FALSE, MaxFollow))

(* os.Stat: the entry a path names, symlinks followed *)
Stat(f, p) == Found(f, Namei(f, p, TRUE, MaxFollow))

(* The mode of a stat result: "file", "dir", "link", or "none" on error *)
Kind(f, r) == IF r.ok THEN f[r.p].kind ELSE "none"

---------------------------------------------------------------------------
(* package fileutil, and the os / filepath calls it makes *)

(* fileutil.PathExists *)
PathExists(f, p) == Lstat(f, p).ok

(* fileutil.IsRegularFile *)
IsRegularFile(f, p) == Kind(f, Lstat(f, p)) = "file"

(* fileutil.IsSymlink *)
IsSymlink(f, p) == Kind(f, Lstat(f, p)) = "link"

(* fileutil.IsDir: os.Stat, so a symlink to a directory is a directory *)
IsDir(f, p) == Kind(f, Stat(f, p)) = "dir"

(* A path string: absolute or relative, and its names.  The paths the     *)
(* engine builds are absolute; a link value may be relative.              *)
AbsStr(p) == [abs |-> TRUE, val |-> p]

NoLink == [ok |-> FALSE, abs |-> TRUE, val |-> <<>>]

ReadlinkAt(f, r) ==
    IF Kind(f, r) = "link"
    THEN [ok |-> TRUE, abs |-> f[r.p].abs, val |-> f[r.p].val]
    ELSE NoLink

(* os.Readlink *)
Readlink(f, p) == ReadlinkAt(f, Lstat(f, p))

(* filepath.Abs: a relative path is joined to the working directory *)
Abs(s) == IF s.abs THEN s.val ELSE Join(cwd, s.val)

HasDotDotPrefix(chars) == Len(chars) >= 2 /\ chars[1] = "." /\ chars[2] = "."

(* filepath.Rel(b, a) of two absolute paths, as far as IsChildPath reads   *)
(* it: "." when they are equal, the names below b when a lies below b,    *)
(* and a path that begins with "../" otherwise.                            *)
RelChars(absB, absA) ==
    IF absA = absB THEN <<".">>
    ELSE IF IsStrictPrefix(absB, absA) THEN Spell(absA[Len(absB) + 1])
    ELSE <<".", ".", "/">>

(* fileutil.IsChildPath(a, b): a is a child of b *)
IsChildPath(a, b) ==
    ~(RelChars(Abs(b), Abs(a)) = <<".">> \/ HasDotDotPrefix(RelChars(Abs(b), Abs(a))))

NoHash == [ok |-> FALSE, sum |-> ""]

(* A digest that is computed for a directory as for an empty file *)
HashAtOfDirs(f, r) ==
    IF Kind(f, r) = "file" THEN [ok |-> TRUE, sum |-> f[r.p].content]
    ELSE IF Kind(f, r) = "dir" THEN [ok |-> TRUE, sum |-> ""]
    ELSE NoHash

HashAt(f, r) ==
    IF Kind(f, r) = "file" THEN [ok |-> TRUE, sum |-> f[r.p].content] ELSE NoHash

(* fileutil.HashFile: os.Open follows symlinks; reading a directory fails *)
HashFile(f, p) == HashAt(f, Stat(f, p))

CompareHashes(h1, h2) ==
    IF ~h1.ok THEN [same |-> FALSE, ok |-> FALSE]
    ELSE IF ~h2.ok THEN [same |-> FALSE, ok |-> FALSE]
    ELSE [same |-> (h1.sum = h2.sum), ok |-> TRUE]

(* fileutil.CompareFileHashes: (equal, error) *)
CompareFileHashes(f, file1, file2) ==
    CompareHashes(HashFile(f, file1), HashFile(f, file2))

(* The result of a call that may change the filesystem *)
Done(f) == [fs |-> f, ok |-> TRUE]

Failed(f) == [fs |-> f, ok |-> FALSE]

Without(f, q) == [x \in {y \in DOMAIN f : ~IsPrefix(q, y)} |-> f[x]]

(* The entries at q and below it that a removal cannot take away: those in *)
(* a directory the process may not write in, and below q those in a        *)
(* directory it may not list.                                              *)
Pinned(f, q) ==
    {y \in DOMAIN f :
        /\ IsPrefix(q, y)
        /\ \/ Front(y) \in deny.write
           \/ (y # q /\ Front(y) \in deny.list)}

(* What is left of f when everything at q and below it that can be removed *)
(* is removed: an entry stays when it, or an entry below it, is pinned.    *)
WithoutRemovable(f, q) ==
    [x \in {y \in DOMAIN f :
              ~IsPrefix(q, y) \/ (\E z \in Pinned(f, q) : IsPrefix(y, z))} |-> f[x]]

With(f, q, node) == (q :> node) @@ f

RemoveAllAt(f, r) ==
    IF ~r.ok THEN Done(f)
    ELSE IF r.p = Root THEN Failed(f)
    ELSE IF Pinned(f, r.p) # {} THEN Failed(WithoutRemovable(f, r.p))
    ELSE Done(Without(f, r.p))

(* os.RemoveAll: removes the entry and everything below it, does not       *)
(* follow a symlink, and succeeds when nothing is there.  When a part      *)
(* cannot be removed it removes the rest and fails.                        *)
RemoveAll(f, p) == RemoveAllAt(f, Lstat(f, p))

HasChildren(f, q) == \E y \in DOMAIN f : IsStrictPrefix(q, y)

RemoveAt(f, r) ==
    IF ~r.ok THEN Failed(f)
    ELSE IF r.p = Root \/ HasChildren(f, r.p) THEN Failed(f)
    ELSE IF Front(r.p) \in deny.write THEN Failed(f)
    ELSE Done(Without(f, r.p))

(* os.Remove: a file, a symlink or an empty directory *)
Remove(f, p) == RemoveAt(f, Lstat(f, p))

(* An entry is made at a resolved location where nothing is yet *)
MakeAt(f, r, node) ==
    IF ~r.ok THEN Failed(f)
    ELSE IF r.p \in DOMAIN f THEN Failed(f)
    ELSE IF Front(r.p) \in deny.write THEN Failed(f)
    ELSE Done(With(f, r.p, node))

(* os.Mkdir *)
Mkdir(f, p) == MakeAt(f, Namei(f, p, FALSE, MaxFollow), DirNode)

(* os.MkdirAll: the parents it made stay when a later Mkdir fails *)
RECURSIVE MkdirAll(_, _)
RECURSIVE MkdirUnder(_, _)
RECURSIVE MkdirMade(_, _, _)
MkdirAll(f, p) ==
    IF Stat(f, p).ok
    THEN (IF IsDir(f, p) THEN Done(f) ELSE Failed(f))
    ELSE MkdirUnder(IF Len(p) > 1 THEN MkdirAll(f, Front(p)) ELSE Done(f), p)

MkdirUnder(up, p) == IF ~up.ok THEN up ELSE MkdirMade(up, Mkdir(up.fs, p), p)

MkdirMade(up, mk, p) ==
    IF mk.ok THEN mk
    ELSE IF IsDir(up.fs, p) /\ ~IsSymlink(up.fs, p) THEN Done(up.fs)
    ELSE Failed(up.fs)

(* os.Symlink(oldname, newname): newname becomes a symlink holding oldname *)
Symlink(f, oldname, newname) ==
    MakeAt(f, Namei(f, newname, FALSE, MaxFollow),
           LinkNode(oldname.abs, oldname.val))

CreateSymlinkIn(mk, linkPath, targetPath) ==
    IF ~mk.ok THEN mk
    ELSE IF PathExists(mk.fs, linkPath) THEN Failed(mk.fs)
    ELSE Symlink(mk.fs, AbsStr(targetPath), linkPath)

(* fileutil.CreateSymlink(linkPath, targetPath, createDirs): a symlink at  *)
(* linkPath that points to targetPath.                                     *)
CreateSymlink(f, linkPath, targetPath, createDirs) ==
    CreateSymlinkIn(IF createDirs THEN MkdirAll(f, Front(linkPath)) ELSE Done(f),
                    linkPath, targetPath)

(* fileutil.RemoveSymlink *)
RemoveSymlink(f, path) ==
    IF ~PathExists(f, path) THEN Done(f)
    ELSE IF ~IsSymlink(f, path) THEN Failed(f)
    ELSE Remove(f, path)

PointsTo(l, target) ==
    IF ~l.ok THEN FALSE
    ELSE Abs([abs |-> l.abs, val |-> l.val]) = Abs(AbsStr(target))

(* fileutil.IsSymlinkPointingTo: both sides made absolute with            *)
(* filepath.Abs and compared as strings                                    *)
IsSymlinkPointingTo(f, symlink, target) == PointsTo(Readlink(f, symlink), target)

SamePlace(ra, rb) ==
    IF ~ra.ok \/ ~rb.ok THEN [eq |-> FALSE, ok |-> FALSE]
    ELSE [eq |-> (ra.p = rb.p), ok |-> TRUE]

(* fileutil.PathsEqual: filepath.EvalSymlinks on both, which fails on a    *)
(* path that does not exist; (equal, error)                                *)
PathsEqual(f, a, b) == SamePlace(Stat(f, a), Stat(f, b))

(* fileutil.GetLinkState(targetAbs, sourceAbs) *)
GetLinkState(f, targetAbs, sourceAbs) ==
    IF ~PathExists(f, targetAbs) THEN "Missing"
    ELSE IF IsSymlink(f, targetAbs)
         THEN (IF IsSymlinkPointingTo(f, targetAbs, sourceAbs)
               THEN "AlreadyLinked" ELSE "Mislinked")
    ELSE IF CompareFileHashes(f, sourceAbs, targetAbs).same
         THEN "ExistsIdentical"
    ELSE "ExistsModified"

---------------------------------------------------------------------------
(* Ignore patterns *)

(* filepath.Match on the characters of a well-formed pattern: "*" matches *)
(* any run of characters, "?" one character, any other character itself.  *)
RECURSIVE Glob(_, _)
Glob(pat, chars) ==
    IF pat = <<>> THEN chars = <<>>
    ELSE IF Head(pat) = "*"
         THEN \E k \in 0..Len(chars) :
                 Glob(Tail(pat), SubSeq(chars, k + 1, Len(chars)))
    ELSE IF chars = <<>> THEN FALSE
    ELSE IF Head(pat) = "?" THEN Glob(Tail(pat), Tail(chars))
    ELSE Head(pat) = Head(chars) /\ Glob(Tail(pat), Tail(chars))

(* A pattern is malformed when a character class is opened and not closed *)
BadPattern(pat) ==
    \E i \in 1..Len(pat) :
        pat[i] = "[" /\ ~(\E j \in (i + 1)..Len(pat) : pat[j] = "]")

(* filepath.Match(pattern, value): (matched, error) *)
Match(pat, value) ==
    IF BadPattern(pat) THEN [matched |-> FALSE, ok |-> FALSE]
    ELSE [matched |-> Glob(pat, Spell(value)), ok |-> TRUE]

(* fileutil.MatchesPatterns: the patterns are tried in order, the first   *)
(* match answers true and a malformed pattern reached before it is an      *)
(* error.                                                                  *)
RECURSIVE MatchesPatterns(_, _)
RECURSIVE MatchedHead(_, _, _)
MatchesPatterns(value, patterns) ==
    IF patterns = <<>> THEN [matched |-> FALSE, ok |-> TRUE]
    ELSE MatchedHead(Match(Head(patterns), value), value, patterns)

MatchedHead(m, value, patterns) ==
    IF ~m.ok THEN [matched |-> FALSE, ok |-> FALSE]
    ELSE IF m.matched THEN [matched |-> TRUE, ok |-> TRUE]
    ELSE MatchesPatterns(value, Tail(patterns))

---------------------------------------------------------------------------
(* Classification *)

Classified(s) == [state |-> s, ok |-> TRUE]

ClassifyErr == [state |-> "Ignore", ok |-> FALSE]

(* The Mislinked case of determineTargetState: the link value, read again, *)
(* is tested against the walked root with IsChildPath.                     *)
ChildOfRoot(l, root) == IsChildPath([abs |-> l.abs, val |-> l.val], AbsStr(root))

MislinkedState(f, linkAt, root) ==
    IF ChildOfRoot(Readlink(f, linkAt), root)
    THEN "MislinkedInternal" ELSE "MislinkedExternal"

(* A faulty classification: a correct symlink at the target path is seen   *)
(* before the name of the entry is tested against the ignore list.         *)
StateOfLinkBeforeIgnore(f, m, ls, linkAt, root) ==
    IF ~m.ok THEN ClassifyErr
    ELSE IF ls = "AlreadyLinked" THEN Classified(ls)
    ELSE IF m.matched THEN Classified("Ignore")
    ELSE IF ls = "Mislinked" THEN Classified(MislinkedState(f, linkAt, root))
    ELSE Classified(ls)

(* The body of determineTargetState, the same in lnkit and lnk: m is the   *)
(* answer of MatchesPatterns on the base name of the walked entry, ls the  *)
(* answer of GetLinkState, linkAt the place of the link and root the       *)
(* walked root.                                                            *)
StateOf(f, m, ls, linkAt, root) ==
    IF ~m.ok THEN ClassifyErr
    ELSE IF m.matched THEN Classified("Ignore")
    ELSE IF ls = "Mislinked" THEN Classified(MislinkedState(f, linkAt, root))
    ELSE Classified(ls)

(* determineTargetState of lnkit *)
determineTargetState(f, srcDir, tgtDir, sourceRel, ignoreList) ==
    StateOf(f, MatchesPatterns(Base(Join(srcDir, sourceRel)), ignoreList),
            GetLinkState(f, Join(tgtDir, sourceRel), Join(srcDir, sourceRel)),
            Join(tgtDir, sourceRel), srcDir)

(* determineTargetState of lnk *)
determineLState(f, linkPath, targetPath, targetRoot, ignoreList) ==
    StateOf(f, MatchesPatterns(Base(targetPath), ignoreList),
            GetLinkState(f, linkPath, targetPath), linkPath, targetRoot)

---------------------------------------------------------------------------
(* The handlers of the three commands *)

(* What a handler call did: the filesystem and Stats it leaves, whether    *)
(* the walk may descend (shouldRecurse), whether it returned no error,     *)
(* how many confirmations it asked, whether it reported the entry as       *)
(* skipped, whether its link/unlink closure logged an error, and whether   *)
(* it got as far as the switch on the state.                               *)
HResult(f, st, rec, ok, prompts, skipped, reported, applied) ==
    [fs |-> f, stats |-> st, recurse |-> rec, ok |-> ok, prompts |-> prompts,
     skipped |-> skipped, reported |-> reported, applied |-> applied]

(* A faulty link closure: the error of fileutil.CreateSymlink becomes the  *)
(* error of the handler.                                                   *)
LinkedReturnsError(r, st, rec, prompts) ==
    HResult(r.fs, st, rec, r.ok, prompts, FALSE, ~r.ok, TRUE)

(* The link closure has run: r is what fileutil.CreateSymlink returned.    *)
(* Its error is logged and the handler goes on.                            *)
Linked(r, st, rec, prompts) ==
    HResult(r.fs, st, rec, TRUE, prompts, FALSE, ~r.ok, TRUE)

(* os.RemoveAll has run and the link closure follows, unless RemoveAll     *)
(* failed, which the handler returns as its error.                         *)
RemovedThenLinked(removed, st, a1, a2, createDirs, rec) ==
    IF ~removed.ok
    THEN HResult(removed.fs, st, rec, FALSE, 0, FALSE, FALSE, TRUE)
    ELSE Linked(CreateSymlink(removed.fs, a1, a2, createDirs), st, rec, 0)

(* os.RemoveAll has run and nothing follows it *)
Removed(removed, st, rec, prompts) ==
    HResult(removed.fs, st, rec, removed.ok, prompts, FALSE, FALSE, TRUE)

(* A faulty switch: a declined deletion deletes all the same *)
LinkSwitchDeletesOnDecline(f, st, state, rm, a1, a2, force, createDirs, rec, ansDelete) ==
    CASE state \in {"Ignore", "AlreadyLinked"} ->
            HResult(f, st, rec, TRUE, 0, FALSE, FALSE, TRUE)
      [] state = "Missing" ->
            Linked(CreateSymlink(f, a1, a2, createDirs), st, rec, 0)
      [] state \in {"MislinkedInternal", "ExistsIdentical"} ->
            RemovedThenLinked(RemoveAll(f, rm), st, a1, a2, createDirs, rec)
      [] state \in {"MislinkedExternal", "ExistsModified"} ->
            IF force THEN Removed(RemoveAll(f, rm), st, rec, 0)
            ELSE IF ansDelete THEN Removed(RemoveAll(f, rm), st, rec, 2)
            ELSE HResult(RemoveAll(f, rm).fs, st, rec, TRUE, 2, TRUE, FALSE, TRUE)

(* The switch of createSymlinks' handler, the same in lnkit and lnk.  rm   *)
(* is the path handed to os.RemoveAll, a1 and a2 the first and second      *)
(* argument the link closure hands to fileutil.CreateSymlink.              *)
LinkSwitch(f, st, state, rm, a1, a2, force, createDirs, rec, ansDelete) ==
    CASE state \in {"Ignore", "AlreadyLinked"} ->
            HResult(f, st, rec, TRUE, 0, FALSE, FALSE, TRUE)
      [] state = "Missing" ->
            Linked(CreateSymlink(f, a1, a2, createDirs), st, rec, 0)
      [] state \in {"MislinkedInternal", "ExistsIdentical"} ->
            RemovedThenLinked(RemoveAll(f, rm), st, a1, a2, createDirs, rec)
      [] state \in {"MislinkedExternal", "ExistsModified"} ->
            IF force THEN Removed(RemoveAll(f, rm), st, rec, 0)
            ELSE IF ansDelete THEN Removed(RemoveAll(f, rm), st, rec, 2)
            ELSE HResult(f, st, rec, TRUE, 2, TRUE, FALSE, TRUE)

(* A faulty handler: shouldRecurse does not look at recursive *)
LinkEntryDescends(f, st, entry, isRoot, state, rm, a1, a2, c, o, ansDelete) ==
    IF state = "Ignore"
    THEN HResult(f, st, FALSE, TRUE, 0, FALSE, FALSE, FALSE)
    ELSE IF IsDir(f, entry) /\ c.recursive /\ ~c.fold
    THEN HResult(f, st, isRoot \/ ~c.fold, TRUE, 0, FALSE, FALSE, FALSE)
    ELSE LinkSwitch(f, st, state, rm, a1, a2, o.force, o.createDirs,
                    isRoot \/ ~c.fold, ansDelete)

(* A faulty handler: fold is looked at without recursive, so that a        *)
(* directory is passed over whenever fold is off.                          *)
LinkEntryFoldAlone(f, st, entry, isRoot, state, rm, a1, a2, c, o, ansDelete) ==
    IF state = "Ignore"
    THEN HResult(f, st, FALSE, TRUE, 0, FALSE, FALSE, FALSE)
    ELSE IF IsDir(f, entry) /\ ~c.fold
    THEN HResult(f, st, c.recursive /\ (isRoot \/ ~c.fold), TRUE, 0,
                 FALSE, FALSE, FALSE)
    ELSE LinkSwitch(f, st, state, rm, a1, a2, o.force, o.createDirs,
                    c.recursive /\ (isRoot \/ ~c.fold), ansDelete)

(* The handler of createSymlinks from the check on Ignore on: entry is the *)
(* walked entry as the handler names it, isRoot its comparison with the    *)
(* walked root.                                                            *)
LinkEntry(f, st, entry, isRoot, state, rm, a1, a2, c, o, ansDelete) ==
    IF state = "Ignore"
    THEN HResult(f, st, FALSE, TRUE, 0, FALSE, FALSE, FALSE)
    ELSE IF IsDir(f, entry) /\ c.recursive /\ ~c.fold
    THEN HResult(f, st, c.recursive /\ (isRoot \/ ~c.fold), TRUE, 0,
                 FALSE, FALSE, FALSE)
    ELSE LinkSwitch(f, st, state, rm, a1, a2, o.force, o.createDirs,
                    c.recursive /\ (isRoot \/ ~c.fold), ansDelete)

(* The handler of createSymlinks in lnkit.  The walk hands it the absolute *)
(* source path; the handler takes it for a relative one and joins it to    *)
(* sourceDir once more, and its link closure hands the source path to      *)
(* CreateSymlink as the place of the link.                                 *)
createSymlinksHandler(f, st, sourceRel, targetAbs, state, c, o, ansDelete) ==
    LinkEntry(f, st, Join(sourceDir, sourceRel),
              PathsEqual(f, Join(sourceDir, sourceRel), sourceDir).eq,
              state, targetAbs, Join(sourceDir, sourceRel), targetAbs,
              c, o, ansDelete)

(* A faulty handler for lnk: the link closure is handed the two paths the  *)
(* other way round, as in lnkit.                                           *)
lnkHandlerSwapped(f, st, linkPath, targetPath, linkState, c, o, ansDelete) ==
    LinkEntry(f, st, targetPath, PathsEqual(f, targetPath, sourceDir).eq,
              linkState, linkPath, targetPath, linkPath, c, o, ansDelete)

(* The handler of createSymlinks in lnk *)
lnkHandler(f, st, linkPath, targetPath, linkState, c, o, ansDelete) ==
    LinkEntry(f, st, targetPath, PathsEqual(f, targetPath, sourceDir).eq,
              linkState, linkPath, linkPath, targetPath, c, o, ansDelete)

(* The unlink closure has run: r is what fileutil.RemoveSymlink returned *)
Unlinked(r, st, prompts) ==
    HResult(r.fs, st, FALSE, TRUE, prompts, FALSE, ~r.ok, TRUE)

(* A faulty handler for unlink: what sits at the target path is removed    *)
(* whatever the state of the entry, a file or a directory included.        *)
removeSymlinksHandlerAnyState(f, st, sourceRel, targetAbs, state, c, o, ansRemove) ==
    IF state = "Ignore"
    THEN HResult(f, st, FALSE, TRUE, 0, FALSE, FALSE, TRUE)
    ELSE Removed(RemoveAll(f, targetAbs), st, FALSE, 0)

(* The handler of removeSymlinks (lnkit); it never lets the walk descend *)
removeSymlinksHandler(f, st, sourceRel, targetAbs, state, c, o, ansRemove) ==
    CASE state \in {"Ignore", "Missing", "ExistsIdentical", "ExistsModified"} ->
            HResult(f, st, FALSE, TRUE, 0, FALSE, FALSE, TRUE)
      [] state \in {"AlreadyLinked", "MislinkedInternal"} ->
            Unlinked(RemoveSymlink(f, targetAbs), st, 0)
      [] state = "MislinkedExternal" ->
            IF o.confirm /\ ~ansRemove
            THEN HResult(f, st, FALSE, TRUE, 1, TRUE, FALSE, TRUE)
            ELSE Unlinked(RemoveSymlink(f, targetAbs), st,
                          IF o.confirm THEN 1 ELSE 0)

ZeroStats ==
    [LinkedFiles |-> 0, LinkedDirs |-> 0, Unlinked |-> 0, SameContents |-> 0,
     DifferentContents |-> 0, IncorrectSymlink |-> 0, NoTarget |-> 0,
     Ignored |-> 0]

Inc(st, field) == [st EXCEPT ![field] = @ + 1]

Counted(st, state) ==
    CASE state = "Ignore" -> Inc(st, "Ignored")
      [] state = "Missing" -> Inc(Inc(st, "NoTarget"), "Unlinked")
      [] state = "AlreadyLinked" -> Inc(Inc(st, "LinkedDirs"), "LinkedFiles")
      [] state \in {"MislinkedInternal", "MislinkedExternal"} ->
            Inc(st, "IncorrectSymlink")
      [] state = "ExistsIdentical" -> Inc(st, "SameContents")
      [] state = "ExistsModified" -> Inc(st, "DifferentContents")

(* A faulty handler for stats: it counts the entry and clears its target   *)
(* path.                                                                   *)
gatherStatsHandlerClears(f, st, sourceRel, targetAbs, state, c, o, ans) ==
    HResult(RemoveAll(f, targetAbs).fs, Counted(st, state), TRUE, TRUE, 0,
            FALSE, FALSE, TRUE)

(* The handler of gatherStats (lnkit); it always lets the walk descend *)
gatherStatsHandler(f, st, sourceRel, targetAbs, state, c, o, ans) ==
    HResult(f, Counted(st, state), TRUE, TRUE, 0, FALSE, FALSE, TRUE)

---------------------------------------------------------------------------
(* filepath.Walk and the callback walkSourceRec gives it *)

(* The names of the model in the byte order readDirNames sorts them in *)
NameOrder == <<"..c", ".git", "D", "F", "G", "R", "T", "X">>

NamesAt(f, d) ==
    IF ~d.ok THEN <<>>
    ELSE SelectSeq(NameOrder, LAMBDA n : Append(d.p, n) \in DOMAIN f)

(* readDirNames: the sorted names of the directory a path designates *)
ReadDirNames(f, p) == NamesAt(f, Stat(f, p))

Under(p, names) == [i \in 1..Len(names) |-> Append(p, names[i])]

Children(f, p) == Under(p, ReadDirNames(f, p))

NoVisit ==
    [n |-> 0, called |-> FALSE, src |-> <<>>, tgt |-> <<>>, state |-> "None",
     isDir |-> FALSE, applied |-> FALSE, prompts |-> 0, skipped |-> FALSE,
     reported |-> FALSE]

(* What one call of the walk callback did: the handler's result, the      *)
(* callback's verdict ("nil", "SkipDir" or "err") and the record of the    *)
(* visit.                                                                  *)
CbSkip(f, st) == [fs |-> f, stats |-> st, verdict |-> "nil", v |-> NoVisit]

CbErr(f, st) == [fs |-> f, stats |-> st, verdict |-> "err", v |-> NoVisit]

(* A faulty callback: whether a directory is skipped is left to the        *)
(* handler alone, the state of the entry is not looked at.                 *)
CbHandledAsHandlerSays(h, src, tgt, state, isDir) ==
    [fs |-> h.fs, stats |-> h.stats,
     verdict |-> IF ~h.ok THEN "err"
                 ELSE IF ~h.recurse /\ isDir THEN "SkipDir"
                 ELSE "nil",
     v |-> [n |-> 0, called |-> TRUE, src |-> src, tgt |-> tgt, state |-> state,
            isDir |-> isDir, applied |-> h.applied, prompts |-> h.prompts,
            skipped |-> h.skipped, reported |-> h.reported]]

CbHandled(h, src, tgt, state, isDir) ==
    [fs |-> h.fs, stats |-> h.stats,
     verdict |-> IF ~h.ok THEN "err"
                 ELSE IF (~h.recurse \/ state = "Ignore") /\ isDir THEN "SkipDir"
                 ELSE "nil",
     v |-> [n |-> 0, called |-> TRUE, src |-> src, tgt |-> tgt, state |-> state,
            isDir |-> isDir, applied |-> h.applied, prompts |-> h.prompts,
            skipped |-> h.skipped, reported |-> h.reported]]

(* The handler the command of the run installs (lnkit) *)
Handle(f, st, sourceAbs, targetAbs, state, c, o, ans) ==
    CASE c.name = "link" ->
            createSymlinksHandler(f, st, sourceAbs, targetAbs, state, c, o, ans)
      [] c.name = "unlink" ->
            removeSymlinksHandler(f, st, sourceAbs, targetAbs, state, c, o, ans)
      [] c.name = "stats" ->
            gatherStatsHandler(f, st, sourceAbs, targetAbs, state, c, o, ans)

RelTo(root, p) == SubSeq(p, Len(root) + 1, Len(p))

(* walkSourceRec of lnkit once the entry is classified as ts *)
Dispatch(f, st, sourceAbs, targetAbs, ts, isDir, c, o, ans) ==
    IF ~ts.ok THEN CbErr(f, st)
    ELSE CbHandled(Handle(f, st, sourceAbs, targetAbs, ts.state, c, o, ans),
                   sourceAbs, targetAbs, ts.state, isDir)

(* A faulty callback: a source-side symlink is classified and handled as   *)
(* any other entry.                                                        *)
EntryWithSymlinks(f, st, isRootDir, sourceAbs, isDir, c, o, ans) ==
    IF ~isRootDir.ok THEN CbErr(f, st)
    ELSE IF isRootDir.eq THEN CbSkip(f, st)
    ELSE Dispatch(f, st, sourceAbs, Join(targetDir, RelTo(sourceDir, sourceAbs)),
                  determineTargetState(f, sourceDir, targetDir,
                                       RelTo(sourceDir, sourceAbs), o.ignore),
                  isDir, c, o, ans)

(* A faulty callback: the root is classified and handled as any other     *)
(* entry.                                                                  *)
EntryWithRoot(f, st, isRootDir, sourceAbs, isDir, c, o, ans) ==
    IF ~isRootDir.ok THEN CbErr(f, st)
    ELSE IF IsSymlink(f, sourceAbs) THEN CbSkip(f, st)
    ELSE Dispatch(f, st, sourceAbs, Join(targetDir, RelTo(sourceDir, sourceAbs)),
                  determineTargetState(f, sourceDir, targetDir,
                                       RelTo(sourceDir, sourceAbs), o.ignore),
                  isDir, c, o, ans)

(* walkSourceRec of lnkit once the entry is compared with the root *)
Entry(f, st, isRootDir, sourceAbs, isDir, c, o, ans) ==
    IF ~isRootDir.ok THEN CbErr(f, st)
    ELSE IF isRootDir.eq THEN CbSkip(f, st)
    ELSE IF IsSymlink(f, sourceAbs) THEN CbSkip(f, st)
    ELSE Dispatch(f, st, sourceAbs, Join(targetDir, RelTo(sourceDir, sourceAbs)),
                  determineTargetState(f, sourceDir, targetDir,
                                       RelTo(sourceDir, sourceAbs), o.ignore),
                  isDir, c, o, ans)

(* The callback of walkSourceRec in lnkit: the root and the source-side    *)
(* symlinks are passed over, every other entry is classified and handed to *)
(* the handler with its absolute source path.                              *)
walkSourceRec(f, st, sourceAbs, isDir, c, o, ans) ==
    Entry(f, st, PathsEqual(f, sourceAbs, sourceDir), sourceAbs, isDir, c, o, ans)

(* walkSourceRec of lnk once the entry is classified as ls *)
LnkDispatch(f, st, targetPath, linkPath, ls, isDir, c, o, ans) ==
    IF ~ls.ok THEN CbErr(f, st)
    ELSE CbHandled(lnkHandler(f, st, linkPath, targetPath, ls.state, c, o, ans),
                   targetPath, linkPath, ls.state, isDir)

LnkEntry(f, st, targetPath, linkPath, isDir, c, o, ans) ==
    IF IsSymlink(f, targetPath) THEN CbSkip(f, st)
    ELSE LnkDispatch(f, st, targetPath, linkPath,
                     determineLState(f, linkPath, targetPath, sourceDir, o.ignore),
                     isDir, c, o, ans)

(* The callback of walkSourceRec in lnk: only symlinks are passed over *)
lnkWalkSourceRec(f, st, targetPath, isDir, c, o, ans) ==
    LnkEntry(f, st, targetPath, Join(targetDir, RelTo(sourceDir, targetPath)),
             isDir, c, o, ans)

Callback(f, st, p, isDir, c, o, ans) ==
    IF ver = "lnkit" THEN walkSourceRec(f, st, p, isDir, c, o, ans)
    ELSE lnkWalkSourceRec(f, st, p, isDir, c, o, ans)

---------------------------------------------------------------------------
(* The trees the model starts from *)

R == <<"R">>
T == <<"T">>
X == <<"X">>

(* The commands one behaviour runs one after the other *)
MaxRuns == 2

PatGit == <<".", "g", "i", "t">>
PatStarGit == <<"*", ".", "g", "i", "t">>
PatToml == <<"l", "n", "k", "i", "t", ".", "t", "o", "m", "l">>
PatIgnoreFile == <<".", "l", "n", "k", "i", "t", "i", "g", "n", "o", "r", "e">>

(* A line of the ignore file that opens a character class and never closes *)
(* it                                                                      *)
PatOpenClass == <<"[", "g", "i", "t">>

(* defaultConfig.Options.Ignore of lnkit *)
DefaultIgnore == <<PatToml, PatIgnoreFile, PatStarGit>>

(* The default list with the lines of an ignore file appended: a          *)
(* malformed line after the defaults, and an ignore list that starts with  *)
(* one                                                                     *)
IgnoreWithBadLine == <<PatToml, PatIgnoreFile, PatStarGit, PatOpenClass>>

IgnoreBadFirst == <<PatOpenClass, PatStarGit>>

(* The ignore list runLink hands to createSymlinks *)
LnkIgnore == <<PatGit>>

Tree(entries) ==
    [p \in {e[1] : e \in entries} |-> (CHOOSE e \in entries : e[1] = p)[2]]

BaseEntries ==
    {<<Root, DirNode>>, <<R, DirNode>>, <<T, DirNode>>, <<X, FileNode("x")>>}

FEntry == {<<R \o <<"F">>, FileNode("a")>>}
DEntries == {<<R \o <<"D">>, DirNode>>, <<R \o <<"D", "G">>, FileNode("a")>>}
GitEntries ==
    {<<R \o <<".git">>, DirNode>>, <<R \o <<".git", "G">>, FileNode("a")>>,
     <<R \o <<"D", ".git">>, FileNode("a")>>}

(* The source trees: F and D/G, without and with a .git directory at the   *)
(* root and a .git file in D                                               *)
SourcePlain == FEntry \cup DEntries

SourceGit == FEntry \cup DEntries \cup GitEntries

(* Source roots that hold regular files only: one file, and two *)
SourceOneFile == FEntry

SourceTwoFiles == FEntry \cup {<<R \o <<"G">>, FileNode("b")>>}

(* A source root that holds, next to F and D/G, the symlink G: to a file   *)
(* outside, to the directory D, or to a path where nothing is              *)
SourceLinks ==
    {SourcePlain \cup {<<R \o <<"G">>, LinkNode(TRUE, v)>>} :
        v \in {X, R \o <<"D">>, T \o <<"G">>}}

(* A source root in which every entry has an ignored name *)
SourceOnlyGit ==
    {<<R \o <<".git">>, DirNode>>, <<R \o <<".git", "G">>, FileNode("a")>>}

(* A source root with a directory whose name begins with two dots *)
SourceDots == FEntry \cup {<<R \o <<"..c">>, DirNode>>}

TF == T \o <<"F">>
TD == T \o <<"D">>
TDG == T \o <<"D", "G">>
TGit == T \o <<".git">>

(* What the target root may hold at F and D when a behaviour starts *)
TargetPlain ==
    { {},
      {<<TF, FileNode("a")>>},
      {<<TF, FileNode("b")>>},
      {<<TF, LinkNode(TRUE, R \o <<"F">>)>>},
      {<<TF, LinkNode(TRUE, R \o <<"D">>)>>},
      {<<TF, LinkNode(TRUE, X)>>},
      {<<TD, DirNode>>},
      {<<TD, DirNode>>, <<TDG, FileNode("a")>>},
      {<<TD, DirNode>>, <<TDG, FileNode("b")>>},
      {<<TD, LinkNode(TRUE, R \o <<"D">>)>>},
      {<<TD, LinkNode(TRUE, X)>>},
      {<<TD, FileNode("a")>>},
      {<<TF, LinkNode(TRUE, R \o <<"F">>)>>, <<TD, LinkNode(TRUE, R \o <<"D">>)>>},
      {<<TF, LinkNode(TRUE, R \o <<"F">>)>>, <<TD, DirNode>>,
       <<TDG, LinkNode(TRUE, R \o <<"D", "G">>)>>},
      {<<TF, FileNode("b")>>, <<TD, DirNode>>, <<TDG, FileNode("b")>>} }

(* ... and at .git *)
TargetGit ==
    { {<<TGit, LinkNode(TRUE, R \o <<".git">>)>>},
      {<<TGit, DirNode>>, <<TGit \o <<"G">>, FileNode("b")>>},
      {<<TD, DirNode>>, <<TD \o <<".git">>, FileNode("b")>>} }

(* Symlinks at T/F whose value is not the plain absolute path of an entry: *)
(* the relative value "F", and the absolute path of a name in the source   *)
(* root that begins with two dots.                                         *)
TargetOddLinks ==
    { {<<TF, LinkNode(FALSE, <<"F">>)>>},
      {<<TF, LinkNode(TRUE, R \o <<"..c">>)>>} }

(* The trees and ignore lists of lnkit: the empty ignore list matters with *)
(* the source tree that holds .git only.                                   *)
LnkitTrees ==
    {<<SourcePlain, t, DefaultIgnore>> : t \in TargetPlain}
    \cup {<<SourceGit, t, i>> : t \in TargetPlain \cup TargetGit,
                               i \in {<<>>, DefaultIgnore}}
    \cup {<<SourcePlain, t, DefaultIgnore>> : t \in TargetOddLinks}
    \cup {<<s, {}, DefaultIgnore>> : s \in {SourceOneFile, SourceTwoFiles}}
    \cup {<<SourceGit, {}, i>> : i \in {IgnoreWithBadLine, IgnoreBadFirst}}
    \cup {<<SourceOnlyGit, {}, IgnoreWithBadLine>>}
    \cup {<<s, t, DefaultIgnore>> :
             s \in SourceLinks, t \in {{}, {<<TF, FileNode("b")>>}}}

LnkTrees ==
    {<<SourcePlain, t, LnkIgnore>> : t \in TargetPlain}
    \cup {<<SourceGit, t, LnkIgnore>> : t \in TargetPlain \cup TargetGit}
    \cup {<<SourcePlain, t, LnkIgnore>> : t \in TargetOddLinks}
    \cup {<<s, {}, LnkIgnore>> : s \in SourceLinks}

(* The roots of a run: <<walked root, root of the links>>.  main of lnkit  *)
(* takes them from the configuration file or the command line, which may   *)
(* name the same directory twice.                                          *)
LnkitRoots == {<<R, T>>, <<R, R>>}

(* Roots main of lnkit has to look at twice: a target root below the       *)
(* source root, a root that is missing, that is a file, or that may be a   *)
(* symlink to a directory.                                                 *)
LnkitOddRoots ==
    {<<R, R \o <<"D">>>>, <<R, R \o <<"..c">>>>, <<R \o <<"G">>, T>>,
     <<R, T \o <<"G">>>>, <<R \o <<"F">>, T>>, <<R, X>>, <<R, TD>>, <<TD, T>>}

(* ... and the trees they are tried on *)
OddRootTrees ==
    {<<SourcePlain, t, DefaultIgnore>> :
        t \in {{}, {<<TD, LinkNode(TRUE, R \o <<"D">>)>>}}}
    \cup {<<SourceDots, {}, DefaultIgnore>>}

LnkRoots ==
    {<<R, T>>, <<R \o <<"F">>, TF>>, <<R \o <<"D">>, TD>>,
     <<R \o <<"D", "G">>, TDG>>, <<R \o <<".git">>, TGit>>,
     <<R \o <<"G">>, T \o <<"G">>>>}

(* The starts of a behaviour: trees, ignore list and roots.  Equal roots   *)
(* go with the trees that have nothing of their own in T.                  *)
(* A source root inside the target root, as the dotfiles directory of a    *)
(* home directory: T/D with the file G is walked and the links go to T.    *)
LnkitStarts ==
    {[tree |-> tr, roots |-> <<R, T>>] : tr \in LnkitTrees}
    \cup {[tree |-> tr, roots |-> <<R, R>>] : tr \in {t \in LnkitTrees : t[2] = {}}}
    \cup {[tree |-> tr, roots |-> r] : tr \in OddRootTrees, r \in LnkitOddRoots}
    \cup {[tree |-> <<{}, {<<TD, DirNode>>, <<TDG, FileNode("a")>>}, DefaultIgnore>>,
           roots |-> <<TD, T>>]}

LnkStarts ==
    {[tree |-> tr, roots |-> r] : tr \in LnkTrees, r \in LnkRoots}
    \cup {[tree |-> <<{}, {<<TD, DirNode>>, <<TDG, FileNode("a")>>}, LnkIgnore>>,
           roots |-> <<TD, T>>]}

NoCmd == [name |-> "none", recursive |-> FALSE, fold |-> FALSE]

(* Package ymlfs is used by the tests alone: no command calls it *)
NoYml == [at |-> "unused", yamlData |-> <<>>, stack |-> <<>>, outYaml |-> <<>>]

(* What the permissions of the directories deny the process: nothing, or   *)
(* listing the source directory D, or writing in the target root.          *)
NoDenial == [list |-> {}, write |-> {}]

Denials(st) ==
    {NoDenial}
    \cup (IF st.tree[1] = SourcePlain /\ st.tree[2] = {}
             /\ st.roots \in {<<R, T>>, <<R \o <<"D">>, TD>>}
          THEN {[list |-> {R \o <<"D">>}, write |-> {}]} ELSE {})
    \cup (IF st.tree[1] = SourcePlain
             /\ st.tree[2] \in {{}, {<<TF, FileNode("b")>>},
                                {<<TF, LinkNode(TRUE, R \o <<"F">>)>>}}
             /\ st.roots = <<R, T>>
          THEN {[list |-> {}, write |-> {T}]} ELSE {})

Init ==
    /\ ver \in {"lnkit", "lnk"}
    /\ \E st \in IF ver = "lnkit" THEN LnkitStarts ELSE LnkStarts,
          force \in BOOLEAN, createDirs \in BOOLEAN,
          confirm \in IF ver = "lnkit" THEN BOOLEAN ELSE {FALSE} :
          /\ fs = Tree(BaseEntries \cup st.tree[1] \cup st.tree[2])
          /\ cfg = [force |-> force, createDirs |-> createDirs,
                    confirm |-> confirm, ignore |-> st.tree[3]]
          /\ sourceDir = st.roots[1]
          /\ targetDir = st.roots[2]
          /\ deny \in Denials(st)
    /\ cwd = R
    /\ pc = "idle"
    /\ cmd = NoCmd
    /\ todo = <<>>
    /\ visit = NoVisit
    /\ stats = ZeroStats
    /\ walkErr = FALSE
    /\ yml = NoYml
    /\ hist = [runs |-> 0, fs0 |-> fs, start |-> fs, prev |-> NoCmd,
               declined |-> FALSE, visited |-> {}, unread |-> FALSE,
               killed |-> 0, before |-> fs]

---------------------------------------------------------------------------
(* The commands *)

(* The checks main (lnkit) makes on the two roots before any command *)
RootsValid(f) ==
    /\ IsDir(f, sourceDir)
    /\ IsDir(f, targetDir)
    /\ ~IsSymlink(f, sourceDir)
    /\ ~IsSymlink(f, targetDir)
    /\ ~IsChildPath(AbsStr(targetDir), AbsStr(sourceDir))

(* The directories the command may be started in: the working directory   *)
(* is read by filepath.Abs alone, which is handed the value of a symlink,  *)
(* so that it is varied when a symlink has a relative value.               *)
WorkDirs(f) ==
    IF \E x \in DOMAIN f : f[x].kind = "link" /\ ~f[x].abs THEN {R, T} ELSE {R}

Begin(c) ==
    /\ cmd' = c
    /\ visit' = NoVisit
    /\ stats' = ZeroStats
    /\ walkErr' = FALSE
    /\ hist' = [hist EXCEPT !.runs = @ + 1, !.start = fs, !.prev = cmd,
                            !.visited = {}, !.unread = FALSE]
    /\ cwd' \in WorkDirs(fs)
    /\ UNCHANGED <<ver, fs, cfg, sourceDir, targetDir, deny, yml>>

(* main of lnkit: link, unlink or stats on the configured roots.  With     *)
(* roots it refuses, the command returns before any walk.  After a         *)
(* termination the command that was ended is the one given again.          *)
StartLnkit ==
    /\ ver = "lnkit"
    /\ pc \in {"idle", "killed"}
    /\ hist.runs < MaxRuns
    /\ \E name \in {"link", "unlink", "stats"}, rec \in BOOLEAN, fold \in BOOLEAN :
          /\ name # "link" => (~rec /\ ~fold)
          /\ pc = "killed" => cmd = [name |-> name, recursive |-> rec, fold |-> fold]
          /\ Begin([name |-> name, recursive |-> rec, fold |-> fold])
    /\ IF RootsValid(fs)
       THEN pc' = "walk" /\ todo' = <<sourceDir>>
       ELSE pc' = "idle" /\ todo' = <<>>

(* runLink of lnk: link link_path target_path [--rec] [--fold] *)
StartLnk ==
    /\ ver = "lnk"
    /\ pc \in {"idle", "killed"}
    /\ hist.runs < MaxRuns
    /\ \E rec \in BOOLEAN, fold \in BOOLEAN :
          /\ pc = "killed" => cmd = [name |-> "link", recursive |-> rec, fold |-> fold]
          /\ Begin([name |-> "link", recursive |-> rec, fold |-> fold])
    /\ pc' = "walk"
    /\ todo' = <<sourceDir>>

(* The walk goes on after a callback: it stops on an error, descends into *)
(* a directory the callback did not skip, and passes to the next entry    *)
(* otherwise.  below are the names of the directory, read before the      *)
(* callback ran.                                                           *)
Walked(r, p, isDir, below) ==
    /\ fs' = r.fs
    /\ stats' = r.stats
    /\ visit' = [r.v EXCEPT !.n = visit.n + 1]
    /\ walkErr' = (r.verdict = "err")
    /\ todo' = IF r.verdict = "err" THEN <<>>
               ELSE IF r.verdict = "nil" /\ isDir THEN below \o Tail(todo)
               ELSE Tail(todo)
    /\ hist' = [hist EXCEPT !.declined = @ \/ r.v.skipped,
                            !.visited = IF r.v.called THEN @ \cup {p} ELSE @]

(* The answers the user may give: both when the callback asks, and one     *)
(* outcome when it does not.                                               *)
Outcomes(yes, p, isDir) ==
    IF yes.v.prompts = 0 THEN {yes}
    ELSE {yes, Callback(fs, stats, p, isDir, cmd, cfg, FALSE)}

(* readDirNames of filepath.Walk fails on a directory the process may not  *)
(* list.                                                                   *)
Unlistable(f, p, info) ==
    /\ info.ok
    /\ Kind(f, info) = "dir"
    /\ Stat(f, p).p \in deny.list

(* One step of filepath.Walk: the next entry is lstat'ed, the names of a   *)
(* directory are read, the callback is called, and its verdict decides     *)
(* whether the walk descends, goes on or stops.  The callback returns the  *)
(* error of either at once.                                                *)
Step ==
    /\ pc = "walk"
    /\ todo # <<>>
    /\ \E info \in {Lstat(fs, Head(todo))} :
          IF ~info.ok \/ Unlistable(fs, Head(todo), info)
          THEN /\ todo' = <<>>
               /\ walkErr' = TRUE
               /\ visit' = [NoVisit EXCEPT !.n = visit.n + 1]
               /\ hist' = [hist EXCEPT !.unread = Unlistable(fs, Head(todo), info)]
               /\ UNCHANGED <<fs, stats>>
          ELSE \E isDir \in {Kind(fs, info) = "dir"} :
               \E yes \in {Callback(fs, stats, Head(todo), isDir, cmd, cfg, TRUE)} :
               \E r \in Outcomes(yes, Head(todo), isDir) :
                  Walked(r, Head(todo), isDir,
                         IF isDir THEN Children(fs, Head(todo)) ELSE <<>>)
    /\ UNCHANGED <<ver, cwd, cfg, sourceDir, targetDir, pc, cmd, deny, yml>>

(* filepath.Walk has returned and the command ends *)
Finish ==
    /\ pc = "walk"
    /\ todo = <<>>
    /\ pc' = "idle"
    /\ UNCHANGED <<ver, fs, cwd, cfg, sourceDir, targetDir, cmd, todo, visit,
                   stats, walkErr, hist, deny, yml>>

(* The filesystems the handler leaves between two of its calls when it     *)
(* takes f to g: os.RemoveAll comes first, the os.MkdirAll of               *)
(* fileutil.CreateSymlink second and os.Symlink last.                      *)
AfterRemoveAll(f, g) ==
    [x \in {y \in DOMAIN f : y \in DOMAIN g /\ g[y] = f[y]} |-> f[x]]

AfterMkdirAll(f, g) ==
    [x \in {y \in DOMAIN g : (y \in DOMAIN f /\ g[y] = f[y]) \/ g[y].kind = "dir"}
        |-> g[x]]

Halfway(f, g) == {AfterRemoveAll(f, g), AfterMkdirAll(f, g)}

(* The filesystems the process may leave when it is ended now: the present *)
(* one, and those inside the callback on the next entry of the walk.       *)
LeftWhenKilled ==
    {fs} \cup
    (IF todo # <<>> /\ Lstat(fs, Head(todo)).ok
     THEN Halfway(fs, Callback(fs, stats, Head(todo),
                               Kind(fs, Lstat(fs, Head(todo))) = "dir",
                               cmd, cfg, TRUE).fs)
     ELSE {})

(* The process is ended from outside in the middle of the walk of link.    *)
(* The terminations followed are those of a run with force and without     *)
(* confirm that exactly one more run can come after.                       *)
Interrupt ==
    /\ pc = "walk"
    /\ cmd.name = "link"
    /\ cfg.force
    /\ ~cfg.confirm
    /\ hist.runs = MaxRuns - 1
    /\ hist.killed = 0
    /\ fs' \in LeftWhenKilled
    /\ pc' = "killed"
    /\ todo' = <<>>
    /\ hist' = [hist EXCEPT !.killed = hist.runs, !.before = hist.start]
    /\ UNCHANGED <<ver, cwd, cfg, sourceDir, targetDir, cmd, visit, stats,
                   walkErr, deny, yml>>

(* filepath.Walk from the entries td on, run to its end without questions: *)
(* the filesystem it leaves.                                               *)
RECURSIVE WalkAll(_, _, _)
WalkOn(r, f, td, isDir, c) ==
    IF r.verdict = "err" THEN r.fs
    ELSE WalkAll(r.fs,
                 IF r.verdict = "nil" /\ isDir
                 THEN Children(f, Head(td)) \o Tail(td) ELSE Tail(td),
                 c)

WalkEntry(info, f, td, c) ==
    IF ~info.ok \/ Unlistable(f, Head(td), info) THEN f
    ELSE WalkOn(Callback(f, ZeroStats, Head(td), Kind(f, info) = "dir", c, cfg, TRUE),
                f, td, Kind(f, info) = "dir", c)

WalkAll(f, td, c) ==
    IF td = <<>> THEN f
    ELSE WalkEntry(Lstat(f, Head(td)), f, td, c)

vars == <<ver, fs, cwd, cfg, sourceDir, targetDir, pc, cmd, todo, visit,
          stats, walkErr, hist, deny, yml>>

Next == StartLnkit \/ StartLnk \/ Step \/ Finish \/ Interrupt

Spec == Init /\ [][Next]_vars

---------------------------------------------------------------------------
(* Reading a filesystem and a run *)

(* The path names a symlink whose value is the absolute path dest *)
IsLinkTo(f, p, dest) ==
    /\ IsSymlink(f, p)
    /\ Readlink(f, p).abs
    /\ Readlink(f, p).val = dest

(* The entry at q and everything below it is the same in f and g *)
SameAt(f, g, q) ==
    \A x \in DOMAIN f \cup DOMAIN g :
        IsPrefix(q, x) => (x \in DOMAIN f /\ x \in DOMAIN g /\ f[x] = g[x])

(* f and g agree everywhere but at q and below it *)
SameBut(f, g, q) ==
    \A x \in DOMAIN f \cup DOMAIN g :
        ~IsPrefix(q, x) => (x \in DOMAIN f /\ x \in DOMAIN g /\ f[x] = g[x])

(* This step is a visit of the walk in which the handler of link reached   *)
(* its switch on the state: the entry is not ignored and is not a          *)
(* directory a recursive run without folding passes by.                    *)
LinkVisit ==
    /\ pc = "walk"
    /\ cmd.name = "link"
    /\ visit'.n = visit.n + 1
    /\ visit'.called
    /\ visit'.applied

(* A command has ended and was the first of the behaviour *)
FirstRunOver == pc = "idle" /\ hist.runs = 1

---------------------------------------------------------------------------
(* C1: when link handles a visited, non-ignored entry whose target path is *)
(* Missing and reports no error, the target path is afterwards a symlink   *)
(* whose value is the absolute path of the source entry, and the source    *)
(* entry is still there, unchanged.                                        *)
C1_MissingTargetLinkedToSource ==
    [][ (LinkVisit /\ visit'.state = "Missing" /\ ~visit'.reported)
        => /\ IsLinkTo(fs', visit'.tgt, visit'.src)
           /\ visit'.src \in DOMAIN fs
           /\ SameAt(fs, fs', visit'.src) ]_vars

(* The run started from an empty target root T and a source root R that   *)
(* holds the file F and the directory D with the file G in it.             *)
FromEmptyTarget ==
    /\ sourceDir = R
    /\ targetDir = T
    /\ hist.fs0 = Tree(BaseEntries \cup SourcePlain)

(* C2: from an empty T and R = {F, D/G}, link with recursive and fold ends *)
(* with T/F a symlink to R/F and T/D a symlink to R/D, and D is not        *)
(* descended into: G is not visited and gets no link of its own.           *)
C2_RecursiveFoldLinksDirAsUnit ==
    (FirstRunOver /\ FromEmptyTarget /\ cmd.name = "link"
       /\ cmd.recursive /\ cmd.fold)
    => /\ IsLinkTo(fs, TF, R \o <<"F">>)
       /\ IsLinkTo(fs, TD, R \o <<"D">>)
       /\ R \o <<"D", "G">> \notin hist.visited
       /\ ~IsSymlink(fs, TDG)

(* C3: from an empty T and R = {F, D/G}, link with recursive and without   *)
(* fold ends with T/F a symlink to R/F, T/D a real directory and T/D/G a   *)
(* symlink to R/D/G.                                                       *)
C3_RecursiveNoFoldMirrorsDir ==
    (FirstRunOver /\ FromEmptyTarget /\ cmd.name = "link"
       /\ cmd.recursive /\ ~cmd.fold)
    => /\ IsLinkTo(fs, TF, R \o <<"F">>)
       /\ IsDir(fs, TD)
       /\ ~IsSymlink(fs, TD)
       /\ IsLinkTo(fs, TDG, R \o <<"D", "G">>)

(* The link command of lnk has run once, without --rec, on the pair        *)
(* (link path L = targetDir, existing path S = sourceDir), where nothing   *)
(* was at L and S was a regular file or a directory.                       *)
LinkedPairOver ==
    /\ ver = "lnk"
    /\ FirstRunOver
    /\ cmd.name = "link"
    /\ ~cmd.recursive
    /\ ~PathExists(hist.start, targetDir)
    /\ (IsRegularFile(hist.start, sourceDir)
          \/ (IsDir(hist.start, sourceDir) /\ ~IsSymlink(hist.start, sourceDir)))

(* L is a symlink that designates S, and nothing else has changed *)
OnlyPairLinked ==
    /\ IsLinkTo(fs, targetDir, sourceDir)
    /\ SameBut(hist.start, fs, targetDir)

(* C4 as stated: the link command without --rec on (L, S), nothing at L,   *)
(* S a regular file or a directory, ends with L a symlink designating S    *)
(* and S and every other entry unchanged.                                  *)
C4_PairLinkedAsStated == LinkedPairOver => OnlyPairLinked

(* C4: the same, for an S whose base name the built-in ignore list of the  *)
(* command does not match and that the process may list when it is a       *)
(* directory, and an L whose parent is an existing directory the process   *)
(* may write in.                                                           *)
C4_PairLinked ==
    (LinkedPairOver
       /\ ~MatchesPatterns(Base(sourceDir), LnkIgnore).matched
       /\ IsDir(hist.start, Front(targetDir))
       /\ sourceDir \notin deny.list
       /\ Front(targetDir) \notin deny.write)
    => OnlyPairLinked

C4_Witness ==
    /\ LinkedPairOver
    /\ ~MatchesPatterns(Base(sourceDir), LnkIgnore).matched
    /\ IsDir(hist.start, Front(targetDir))
    /\ IsDir(hist.start, sourceDir)
    /\ IsLinkTo(fs, targetDir, sourceDir)

(* The second of two link runs with the same roots, flags and policy,      *)
(* force set and confirm not set                                           *)
SecondLinkRun ==
    /\ hist.runs = 2
    /\ cmd.name = "link"
    /\ hist.prev = cmd
    /\ cfg.force
    /\ ~cfg.confirm

(* C5: link run twice in a row with force and without confirm changes      *)
(* nothing in the filesystem during the second run, and every entry the    *)
(* second run visits and does not ignore is classified AlreadyLinked.      *)
C5_SecondLinkRunIsIdle ==
    SecondLinkRun
    => /\ fs = hist.start
       /\ (visit.called /\ visit.state # "Ignore")
             => visit.state = "AlreadyLinked"

(* link, then unlink with the same roots and policy, have both ended and   *)
(* the user declined nothing                                               *)
RoundTripOver ==
    /\ pc = "idle"
    /\ hist.runs = 2
    /\ hist.prev.name = "link"
    /\ cmd.name = "unlink"
    /\ ~hist.declined

(* C6: link followed by unlink, nothing declined, leaves the target tree   *)
(* as it was before link, and nothing link created remains: no symlink,    *)
(* file or directory is there that was not there before.                   *)
C6_LinkThenUnlinkRestores ==
    RoundTripOver
    => /\ SameAt(hist.fs0, fs, targetDir)
       /\ DOMAIN fs \subseteq DOMAIN hist.fs0

(* The name matches a pattern of the configured ignore list *)
IgnoredName(name) == MatchesPatterns(name, cfg.ignore).matched

(* The entry a path names, or a mark when nothing is there *)
NodeAt(f, p) == IF PathExists(f, p) THEN f[Lstat(f, p).p] ELSE [kind |-> "none"]

(* This step is a visit of the walk that called the handler of the command *)
Visit ==
    /\ pc = "walk"
    /\ visit'.n = visit.n + 1
    /\ visit'.called

(* The handling of an entry with an ignored name leaves the filesystem as  *)
(* it is, and the entry is classified Ignore.                              *)
IgnoredUntouched ==
    (Visit /\ IgnoredName(Base(visit'.src)))
    => (visit'.state = "Ignore" /\ fs' = fs)

(* Whatever happens in a step of a run, the target path of every source    *)
(* entry with an ignored name holds after it what it held before it.       *)
IgnoredTargetsKept ==
    pc = "walk"
    => \A q \in DOMAIN fs :
          (IsStrictPrefix(sourceDir, q) /\ IgnoredName(Base(q)))
          => NodeAt(fs', Join(targetDir, RelTo(sourceDir, q)))
               = NodeAt(fs, Join(targetDir, RelTo(sourceDir, q)))

(* No entry the walk has visited or is about to visit lies below an entry  *)
(* with an ignored name.                                                   *)
IgnoredNotDescended ==
    \A p \in hist.visited \cup {todo[i] : i \in 1..Len(todo)} :
        \A k \in Len(sourceDir)..(Len(p) - 1) :
            k >= 1 => ~IgnoredName(p[k])

(* The Ignored counter of stats goes up only on the visit of an entry with *)
(* an ignored name that is classified Ignore.                              *)
IgnoredCounted ==
    stats'.Ignored > stats.Ignored
    => (Visit /\ visit'.state = "Ignore" /\ IgnoredName(Base(visit'.src)))

C8_IdenticalFileReplacedByLink ==
    [][ (LinkVisit /\ visit'.state = "ExistsIdentical" /\ ~cfg.force)
        => /\ visit'.prompts = 0
           /\ IsLinkTo(fs', visit'.tgt, visit'.src) ]_vars

(* C9: with force, link on an entry classified ExistsModified or           *)
(* MislinkedExternal asks nothing, deletes what is at the target path and  *)
(* relinks: after the handling the target path is a symlink to the source  *)
(* entry.                                                                  *)
C9_ForceDeletesAndRelinks ==
    [][ (LinkVisit /\ visit'.state \in {"ExistsModified", "MislinkedExternal"}
           /\ cfg.force)
        => /\ visit'.prompts = 0
           /\ IsLinkTo(fs', visit'.tgt, visit'.src) ]_vars

(* The walk goes on after this step: no error stops it and the entries     *)
(* that were to follow are still to be visited.                            *)
WalkContinues ==
    /\ ~walkErr'
    /\ \E k \in 0..Len(todo') : SubSeq(todo', k + 1, Len(todo')) = Tail(todo)

(* C10: without force, when the user declines the deletion of an entry     *)
(* classified ExistsModified or MislinkedExternal, link leaves the target  *)
(* path, and the whole filesystem, as it was, and the walk continues with  *)
(* the following entries.                                                  *)
C10_DeclineLeavesTargetAndContinues ==
    [][ (LinkVisit /\ visit'.state \in {"ExistsModified", "MislinkedExternal"}
           /\ ~cfg.force /\ visit'.skipped)
        => /\ fs' = fs
           /\ NodeAt(fs', visit'.tgt) = NodeAt(fs, visit'.tgt)
           /\ WalkContinues ]_vars

(* A decline has been followed by the visit of the next entry *)
C10_Witness ==
    /\ cmd.name = "link"
    /\ ~cfg.force
    /\ hist.declined
    /\ hist.runs = 1
    /\ visit.called
    /\ ~visit.skipped
    /\ visit.state = "Missing"

(* C11: on an entry classified MislinkedInternal, link asks nothing,       *)
(* whatever force and confirm are, removes the symlink that is there and   *)
(* leaves the target path a symlink to the source entry.                   *)
C11_InternalMislinkRepaired ==
    [][ (LinkVisit /\ visit'.state = "MislinkedInternal")
        => /\ visit'.prompts = 0
           /\ IsLinkTo(fs', visit'.tgt, visit'.src) ]_vars

(* The regular files and real directories a tree holds at the target root  *)
(* and below it                                                            *)
RealTargets(f) ==
    {q \in DOMAIN f : IsPrefix(targetDir, q) /\ f[q].kind \in {"file", "dir"}}

(* C12: in every state of an unlink run, each regular file and each real   *)
(* directory that was under the target root when the run began is still    *)
(* there, with the same content.                                           *)
C12_UnlinkKeepsRealEntries ==
    (cmd.name = "unlink")
    => \A q \in RealTargets(hist.start) : q \in DOMAIN fs /\ fs[q] = hist.start[q]

(* An unlink run has ended that removed the symlink T/F of a target root   *)
(* which also holds the real directory T/D                                 *)
C12_Witness ==
    /\ cmd.name = "unlink"
    /\ fs # hist.start
    /\ TD \in RealTargets(hist.start)
    /\ IsSymlink(hist.start, TF)
    /\ ~PathExists(fs, TF)
    /\ pc = "idle"

(* This step is a visit of the walk that called the handler of unlink *)
UnlinkVisit ==
    /\ pc = "walk"
    /\ cmd.name = "unlink"
    /\ visit'.n = visit.n + 1
    /\ visit'.called

(* The visit followed the confirm policy: with confirm one question was    *)
(* asked, a decline left everything in place and an acceptance removed     *)
(* what was at the target path; without confirm nothing was asked and the  *)
(* target path was cleared.                                                *)
RemovedUnderConfirm ==
    IF cfg.confirm
    THEN /\ visit'.prompts = 1
         /\ visit'.skipped => (fs' = fs /\ IsSymlink(fs', visit'.tgt))
         /\ ~visit'.skipped => ~PathExists(fs', visit'.tgt)
    ELSE /\ visit'.prompts = 0
         /\ ~PathExists(fs', visit'.tgt)

(* C13: on an entry classified AlreadyLinked or MislinkedInternal, unlink  *)
(* removes the symlink under the confirm policy: with confirm it asks and  *)
(* removes the symlink only when the user accepts, without confirm it      *)
(* removes it and asks nothing.                                            *)
C13_UnlinkFollowsConfirm ==
    [][ (UnlinkVisit /\ visit'.state \in {"AlreadyLinked", "MislinkedInternal"})
        => RemovedUnderConfirm ]_vars

(* C14: on an entry classified MislinkedExternal, unlink always asks, also *)
(* without confirm, and the symlink is never removed unless the question   *)
(* was asked and accepted.                                                 *)
C14_ExternalUnlinkAlwaysAsks ==
    [][ (UnlinkVisit /\ visit'.state = "MislinkedExternal")
        => /\ visit'.prompts >= 1
           /\ visit'.skipped => fs' = fs ]_vars

(* C15: stats never changes the filesystem: in every state of a stats run  *)
(* the source tree, the target tree and everything else are as they were   *)
(* when the run began.                                                     *)
C15_StatsLeavesFilesystem == (cmd.name = "stats") => fs = hist.start

(* A stats run has ended that visited entries whose targets are symlinks   *)
(* and entries whose targets are files or directories                      *)
C15_Witness ==
    /\ cmd.name = "stats"
    /\ pc = "idle"
    /\ stats.LinkedFiles + stats.IncorrectSymlink > 0
    /\ stats.SameContents + stats.DifferentContents > 0

(* The entries the source root held when the behaviour began *)
SourceEntries == {q \in DOMAIN hist.fs0 : IsStrictPrefix(sourceDir, q)}

(* The behaviour began with a source root R that holds regular files only  *)
(* and an empty target root T.                                             *)
FilesOnlyStart ==
    /\ sourceDir = R
    /\ targetDir = T
    /\ SourceEntries # {}
    /\ \A q \in SourceEntries : hist.fs0[q].kind = "file"
    /\ ~HasChildren(hist.fs0, T)

(* stats on the untouched roots reports every file as without target and   *)
(* unlinked, and nothing else.                                             *)
StatsBeforeLink ==
    (pc = "idle" /\ hist.runs = 1 /\ cmd.name = "stats")
    => stats = [ZeroStats EXCEPT !.NoTarget = Cardinality(SourceEntries),
                                 !.Unlinked = Cardinality(SourceEntries)]

(* stats after link reports every file as linked and none as unlinked *)
StatsAfterLink ==
    (pc = "idle" /\ hist.runs = 2 /\ hist.prev.name = "link" /\ cmd.name = "stats")
    => /\ stats.LinkedFiles = Cardinality(SourceEntries)
       /\ stats.Unlinked = 0

(* C16: for a source root of n regular files and an empty target root,     *)
(* stats reports noTarget = n, unlinked = n and every other counter 0, and *)
(* stats run after link reports linkedFiles = n and unlinked = 0.          *)
C16_StatsBeforeAndAfterLink ==
    FilesOnlyStart => (StatsBeforeLink /\ StatsAfterLink)

(* This step is a visit of the walk that called the handler of stats *)
StatsVisit ==
    /\ pc = "walk"
    /\ cmd.name = "stats"
    /\ visit'.n = visit.n + 1
    /\ visit'.called

(* The counters after one entry, as the state table of stats gives them *)
TableCount(st, state, isDir) ==
    CASE state = "Ignore" -> Inc(st, "Ignored")
      [] state = "Missing" -> Inc(Inc(st, "NoTarget"), "Unlinked")
      [] state = "AlreadyLinked" ->
            IF isDir THEN Inc(st, "LinkedDirs") ELSE Inc(st, "LinkedFiles")
      [] state \in {"MislinkedInternal", "MislinkedExternal"} ->
            Inc(st, "IncorrectSymlink")
      [] state = "ExistsIdentical" -> Inc(Inc(st, "SameContents"), "Unlinked")
      [] state = "ExistsModified" -> Inc(Inc(st, "DifferentContents"), "Unlinked")

(* C17: each entry stats visits changes the counters exactly as the state  *)
(* table says: Ignore adds 1 to ignored; Missing 1 to noTarget and 1 to    *)
(* unlinked; AlreadyLinked 1 to linkedFiles for a file and 1 to linkedDirs *)
(* for a directory, never both; MislinkedInternal and MislinkedExternal 1  *)
(* to incorrectSymlink; ExistsIdentical 1 to sameContents and 1 to         *)
(* unlinked; ExistsModified 1 to differentContents and 1 to unlinked.      *)
C17_StatsCountsByTable ==
    [][ StatsVisit => stats' = TableCount(stats, visit'.state, visit'.isDir) ]_vars

(* The path the symlink at a target path designates: its link value, taken *)
(* from the directory that holds the symlink when it is relative           *)
ResolvedValue(f, tgt) == LinkDest(Lstat(f, tgt).p, NodeAt(f, tgt))

(* Source and target are both readable as files and hold the same bytes *)
SameDigest(f, src, tgt) ==
    /\ HashFile(f, src).ok
    /\ HashFile(f, tgt).ok
    /\ HashFile(f, src).sum = HashFile(f, tgt).sum

(* The state of a non-ignored entry by the decision order of classify *)
DecidedState(f, src, tgt, root) ==
    IF NodeAt(f, tgt).kind = "none" THEN "Missing"
    ELSE IF NodeAt(f, tgt).kind = "link"
         THEN (IF ResolvedValue(f, tgt) = src THEN "AlreadyLinked"
               ELSE IF IsStrictPrefix(root, ResolvedValue(f, tgt))
                    THEN "MislinkedInternal"
               ELSE "MislinkedExternal")
    ELSE IF SameDigest(f, src, tgt) THEN "ExistsIdentical"
    ELSE "ExistsModified"

(* C18: a non-ignored entry is classified by the decision order: Missing   *)
(* iff nothing, a dangling symlink included, is at the target path; for a  *)
(* symlink, AlreadyLinked iff its link value resolved to an absolute path  *)
(* is the absolute source path, else MislinkedInternal iff the resolved    *)
(* path lies below the source root, else MislinkedExternal; for a file or  *)
(* a directory, ExistsIdentical iff the digests of source and target are   *)
(* equal, else ExistsModified.                                             *)
C18_ClassifiedByDecisionOrder ==
    [][ (Visit /\ visit'.state # "Ignore")
        => visit'.state = DecidedState(fs, visit'.src, visit'.tgt, sourceDir) ]_vars

(* This step of the walk classifies the entry it visits: the entry is      *)
(* there, is not a symlink of the source tree and is not the root that     *)
(* lnkit passes over.                                                      *)
Classifies ==
    /\ pc = "walk"
    /\ todo # <<>>
    /\ visit'.n = visit.n + 1
    /\ Lstat(fs, Head(todo)).ok
    /\ ~IsSymlink(fs, Head(todo))
    /\ (ver = "lnkit") => (Head(todo) # sourceDir)

(* The name matches at least one pattern of the ignore list, at whatever   *)
(* position                                                                *)
MatchesSome(name) ==
    \E k \in 1..Len(cfg.ignore) :
        ~BadPattern(cfg.ignore[k]) /\ Glob(cfg.ignore[k], Spell(name))

WellFormedList == \A k \in 1..Len(cfg.ignore) : ~BadPattern(cfg.ignore[k])

(* The entry of this step came out of the classification as Ignore *)
CameOutIgnore == visit'.called /\ visit'.state = "Ignore"

(* C19 as stated: an entry is classified Ignore if and only if its base    *)
(* name matches at least one pattern of the ignore list, whatever the      *)
(* position of the pattern and whatever is at the target path.             *)
C19_IgnoreIffNameMatches ==
    [][ Classifies => (CameOutIgnore <=> MatchesSome(Base(Head(todo)))) ]_vars

(* C19: an entry classified Ignore has a base name that matches a pattern  *)
(* of the ignore list, and with an ignore list of well-formed patterns an  *)
(* entry is classified Ignore if and only if its base name matches at      *)
(* least one of them, whatever its position and whatever is at the target  *)
(* path.                                                                   *)
C19_IgnoreIffNameMatchesWellFormed ==
    [][ Classifies
        => /\ CameOutIgnore => MatchesSome(Base(Head(todo)))
           /\ WellFormedList
                => (CameOutIgnore <=> MatchesSome(Base(Head(todo)))) ]_vars

(* An entry whose name the third pattern of the list matches came out as   *)
(* Ignore while a correct symlink sits at its target path.                 *)
C19_Witness ==
    /\ visit.called
    /\ visit.state = "Ignore"
    /\ cfg.ignore = DefaultIgnore
    /\ ~Glob(cfg.ignore[1], Spell(Base(visit.src)))
    /\ Glob(cfg.ignore[3], Spell(Base(visit.src)))
    /\ IsLinkTo(fs, visit.tgt, visit.src)

(* C20: when the target root is the source root, link, unlink and stats    *)
(* are rejected before anything is done: no walk starts, no entry is       *)
(* visited, and nothing in the filesystem is created, removed or replaced. *)
C20_EqualRootsRejected ==
    (sourceDir = targetDir)
    => /\ pc = "idle"
       /\ hist.visited = {}
       /\ fs = hist.fs0

(* The roots of lnkit are not acceptable in the tree f: the target root    *)
(* lies below the source root, or one of the two is missing, is not a      *)
(* directory, or is a symlink.                                             *)
RootsRefused(f) ==
    \/ IsStrictPrefix(sourceDir, targetDir)
    \/ NodeAt(f, sourceDir).kind # "dir"
    \/ NodeAt(f, targetDir).kind # "dir"

(* C21: a command of lnkit whose target root lies below the source root,   *)
(* or with a root that is missing, not a directory or a symlink, is        *)
(* refused before anything is done: no entry is visited and the filesystem *)
(* stays as it was when the command began; and the link command of lnk on  *)
(* a source path where nothing is creates nothing.                         *)
C21_BadRootsRefused ==
    /\ (ver = "lnkit" /\ hist.runs >= 1 /\ RootsRefused(hist.start))
         => (fs = hist.start /\ hist.visited = {})
    /\ (ver = "lnk" /\ hist.runs >= 1 /\ ~PathExists(hist.start, sourceDir))
         => fs = hist.start

(* A link or unlink run of lnkit on roots main accepts, with an ignore     *)
(* list that holds a malformed pattern                                     *)
RunWithBadPattern ==
    /\ ver = "lnkit"
    /\ cmd.name \in {"link", "unlink"}
    /\ ~WellFormedList
    /\ RootsValid(hist.start)

(* Nothing has been changed by the run *)
NothingMutated == fs = hist.start

(* C22: with a malformed pattern in the ignore list, whatever its position *)
(* and whatever the order of the entries, link and unlink change nothing   *)
(* in the filesystem and end with an error.                                *)
C22_BadPatternAborts ==
    RunWithBadPattern
    => /\ NothingMutated
       /\ (pc = "idle") => walkErr

---------------------------------------------------------------------------
(* Failures of the action on one entry *)

(* This step is a visit in which the handler of link or unlink ran *)
HandlerVisit ==
    /\ pc = "walk"
    /\ cmd.name \in {"link", "unlink"}
    /\ visit'.n = visit.n + 1
    /\ visit'.called

(* The walk goes on after this step: no error, and the entries that were   *)
(* to come are still to come.                                              *)
WalkGoesOn ==
    /\ ~walkErr'
    /\ Len(todo') >= Len(todo) - 1
    /\ SubSeq(todo', Len(todo') - Len(todo) + 2, Len(todo')) = Tail(todo)

---------------------------------------------------------------------------
(* A source directory that cannot be enumerated *)

(* What the command tells its caller once the walk has returned.  main of  *)
(* lnkit ends the process with sugar.Fatalf on the error of link, unlink   *)
(* and stats; runLink of lnk calls createSymlinks, drops what it returns   *)
(* and returns nil.                                                        *)
mainFatal == walkErr

runLink == FALSE

CommandFails == IF ver = "lnkit" THEN mainFatal ELSE runLink

(* C24: when a directory of the source tree cannot be enumerated during    *)
(* the walk, no entry is visited or changed after the failure, and the     *)
(* command reports the error to its caller instead of success.             *)
C24_EnumerationFailureAborts ==
    [][hist'.unread =>
          /\ todo' = <<>>
          /\ hist.unread => (fs' = fs /\ hist'.visited = hist.visited)
          /\ pc' = "idle" => CommandFails']_vars

---------------------------------------------------------------------------
(* Symlinks in the source tree *)

(* This step of the walk is on a source-side entry that is a symlink *)
OnSourceSymlink ==
    /\ pc = "walk"
    /\ todo # <<>>
    /\ IsSymlink(fs, Head(todo))
    /\ visit'.n = visit.n + 1

C26_LinkToSymlink ==
    (/\ ver = "lnk"
     /\ hist.runs >= 1
     /\ pc = "idle"
     /\ IsSymlink(hist.start, sourceDir)
     /\ ~Lstat(hist.start, targetDir).ok)
        => /\ IsLinkTo(fs, targetDir, sourceDir)
           /\ SameBut(fs, hist.start, targetDir)

---------------------------------------------------------------------------
(* fold and recursive *)

(* What the callback does with the entry the walk is at, had the command   *)
(* been given with fold set to b; ans is the answer of the user.           *)
CallbackWithFold(b, ans) ==
    Callback(fs, stats, Head(todo), Kind(fs, Lstat(fs, Head(todo))) = "dir",
             [cmd EXCEPT !.fold = b], cfg, ans)

(* C27: without recursive, fold changes nothing for link: at every entry   *)
(* of the walk the callback leaves the same filesystem, the same record of *)
(* the visit and the same verdict for the walk with fold on and with fold  *)
(* off, so that the two runs visit the same entries and end in the same    *)
(* filesystem.  The answer of the user counts when a question is asked.    *)
C27_FoldIdleWithoutRecursive ==
    (pc = "walk" /\ todo # <<>> /\ cmd.name = "link" /\ ~cmd.recursive
       /\ Lstat(fs, Head(todo)).ok)
        => \E yes \in {CallbackWithFold(TRUE, TRUE)} :
              /\ yes = CallbackWithFold(FALSE, TRUE)
              /\ yes.v.prompts > 0
                    => CallbackWithFold(TRUE, FALSE) = CallbackWithFold(FALSE, FALSE)

(* link without recursive and with fold has applied its switch to a        *)
(* directory                                                               *)
C27_Witness ==
    /\ pc = "walk"
    /\ cmd.name = "link"
    /\ ~cmd.recursive
    /\ cmd.fold
    /\ visit.called
    /\ visit.isDir
    /\ visit.applied
    /\ fs # hist.start

(* Every entry handed to the handler in this run is the walked root or an  *)
(* entry of it, and the directory the handler of link was last handed was  *)
(* taken to its switch as one unit unless it is ignored.                   *)
OnlyTopLevel ==
    /\ \A p \in hist.visited : Len(p) <= Len(sourceDir) + 1
    /\ (cmd.name = "link" /\ visit.called /\ visit.isDir /\ visit.state # "Ignore")
          => visit.applied

---------------------------------------------------------------------------
(* Classification as a function of the filesystem *)

(* The state classify gives the source entry p now, with the roots and the *)
(* ignore list of the behaviour                                            *)
ClassOf(p) ==
    IF ver = "lnkit"
    THEN determineTargetState(fs, sourceDir, targetDir, RelTo(sourceDir, p),
                              cfg.ignore)
    ELSE determineLState(fs, Join(targetDir, RelTo(sourceDir, p)), p, sourceDir,
                         cfg.ignore)

SourcePaths == {x \in DOMAIN fs : IsPrefix(sourceDir, x)}

(* C29: as long as the filesystem is the same, the classification of a     *)
(* source entry is the same: before and after any step that leaves the     *)
(* filesystem alone, the start of another run in another working directory *)
(* included, classify gives every source entry the same state.             *)
C29_ClassificationDeterministic ==
    [][fs' = fs => \A p \in SourcePaths : ClassOf(p)' = ClassOf(p)]_vars

---------------------------------------------------------------------------
(* A link run that is ended from outside *)

(* link with force and without confirm was ended in its walk, and the same *)
(* link has then been run to its end                                       *)
RerunAfterKill ==
    /\ pc = "idle"
    /\ hist.killed >= 1
    /\ hist.runs = hist.killed + 1
    /\ cmd.name = "link"
    /\ hist.prev = cmd
    /\ cfg.force
    /\ ~cfg.confirm

(* C30: when a link run with force and without confirm is ended between    *)
(* two filesystem calls and link is run again to its end, the target tree  *)
(* is the one a single link run that is not ended leaves from the same     *)
(* trees.                                                                  *)
C30_RerunRepairsInterruptedLink ==
    RerunAfterKill
        => SameAt(fs, WalkAll(hist.before, <<sourceDir>>, cmd), targetDir)

---------------------------------------------------------------------------
(* The functions of fileutil on their own *)

(* The regular files of the filesystem *)
RegularFiles == {x \in DOMAIN fs : fs[x].kind = "file"}

(* C31: fileutil.CompareFileHashes reports whether two files differ: for   *)
(* two regular files it returns no error, false when their contents are    *)
(* the same and true when they are not.                                    *)
C31_CompareFileHashesReportsDifference ==
    \A p \in RegularFiles : \A q \in RegularFiles :
        /\ CompareFileHashes(fs, p, q).ok
        /\ CompareFileHashes(fs, p, q).same = (fs[p].content # fs[q].content)

(* C32: fileutil.IsChildPath(a, b) is true exactly when a lies strictly    *)
(* below b, a name that begins with two dots included; it is never true    *)
(* both ways.                                                              *)
C32_IsChildPathIffBelow ==
    \A a \in DOMAIN fs : \A b \in DOMAIN fs :
        /\ IsChildPath(AbsStr(a), AbsStr(b)) = IsStrictPrefix(b, a)
        /\ ~(IsChildPath(AbsStr(a), AbsStr(b)) /\ IsChildPath(AbsStr(b), AbsStr(a)))

---------------------------------------------------------------------------
(* Package ymlfs: a directory tree written as YAML (src/ymlfs/ymlfs.go)      *)
(*                                                                          *)
(* A string is held as its parts between slashes: "a" is <<"a">>, "D/F" is  *)
(* <<"D", "F">>, "/X" is <<"", "X">> and the empty string is <<>>.  A YAML  *)
(* document and the Go value it parses to are both functions from key paths *)
(* to nodes; the key path <<>> is the top-level mapping.                    *)

(* A node of a YAML document: a "mapping", or a "plain" or "quoted" scalar *)
YNode(t, s) == [t |-> t, s |-> s]

(* A Go value: "nil", a "map" or a "string" *)
GoVal(t, s) == [t |-> t, s |-> s]

(* The plain scalars YAML reads as null *)
NullWords == {<<>>, <<"~">>, <<"null">>}

(* ymlfs.ToMap, yaml.Unmarshal into map[string]interface{}: a mapping      *)
(* gives a map, even an empty one; a plain null word gives nil; any other  *)
(* scalar a string.                                                        *)
ToMap(data) ==
    [k \in DOMAIN data |->
        CASE data[k].t = "mapping" -> GoVal("map", <<>>)
          [] data[k].t = "plain" /\ data[k].s \in NullWords -> GoVal("nil", <<>>)
          [] OTHER -> GoVal("string", data[k].s)]

(* A marshaller that quotes nothing *)
MarshalUnquoted(v) ==
    [k \in DOMAIN v |->
        CASE v[k].t = "map" -> YNode("mapping", <<>>)
          [] v[k].t = "nil" -> YNode("plain", <<"null">>)
          [] OTHER -> YNode("plain", v[k].s)]

(* yaml.Marshal: nil is written null, and a string that would read as null *)
(* is quoted.                                                              *)
Marshal(v) ==
    [k \in DOMAIN v |->
        CASE v[k].t = "map" -> YNode("mapping", <<>>)
          [] v[k].t = "nil" -> YNode("plain", <<"null">>)
          [] v[k].s \in NullWords -> YNode("quoted", v[k].s)
          [] OTHER -> YNode("plain", v[k].s)]

(* The keys of the map at key path k *)
KeysAt(node, k) == {x[Len(k) + 1] : x \in {y \in DOMAIN node : Front(y) = k /\ y # <<>>}}

(* v[key].(string): the string, and whether the key holds one *)
StringAt(node, k, key) ==
    IF Append(k, key) \in DOMAIN node /\ node[Append(k, key)].t = "string"
    THEN [ok |-> TRUE, s |-> node[Append(k, key)].s]
    ELSE [ok |-> FALSE, s |-> <<>>]

(* The path a string spells, and the string that spells a path *)
PathOf(s) ==
    IF s # <<>> /\ s[1] = "" THEN [abs |-> TRUE, val |-> Tail(s)]
    ELSE [abs |-> FALSE, val |-> s]

StrOf(l) == IF l.abs THEN <<"">> \o l.val ELSE l.val

(* createStructure, one turn of its loop: the entry name of the map at key *)
(* path k is made below the directory base.  descend tells that the entry  *)
(* is a directory with a map, which createStructure then goes into.        *)
(* os.OpenFile(path, O_CREATE|O_WRONLY|O_TRUNC) follows a symlink, fails   *)
(* on a directory and where the parent is no directory; os.Symlink takes   *)
(* no empty value.                                                         *)
createStructureEntry(f, node, base, k, name) ==
    LET Made(r, descend) == [fs |-> r.fs, ok |-> r.ok, descend |-> descend /\ r.ok]
        WriteFileAt(r, content) ==
            IF ~r.ok THEN Failed(f)
            ELSE IF r.p \in DOMAIN f /\ f[r.p].kind # "file" THEN Failed(f)
            ELSE IF r.p \notin DOMAIN f /\ Front(r.p) \in deny.write THEN Failed(f)
            ELSE Done(With(f, r.p, FileNode(content)))
        SymlinkStr(target, linkPath) ==
            IF target = <<>> THEN Failed(f) ELSE Symlink(f, PathOf(target), linkPath)
        typ == StringAt(node, Append(k, name), "type").s
        content == StringAt(node, Append(k, name), "content")
        target == StringAt(node, Append(k, name), "target")
    IN  IF node[Append(k, name)].t = "map"
        THEN CASE typ = <<"file">> ->
                    IF content.ok
                    THEN Made(WriteFileAt(Namei(f, Append(base, name), TRUE, MaxFollow),
                                          content.s),
                              FALSE)
                    ELSE Made(Failed(f), FALSE)
               [] typ = <<"symlink">> ->
                    IF target.ok
                    THEN Made(SymlinkStr(target.s, Append(base, name)), FALSE)
                    ELSE Made(Failed(f), FALSE)
               [] typ = <<>> -> Made(MkdirAll(f, Append(base, name)), TRUE)
               [] OTHER -> Made(Failed(f), FALSE)
        ELSE IF node[Append(k, name)].t = "nil"
        THEN Made(MkdirAll(f, Append(base, name)), FALSE)
        ELSE Made(Failed(f), FALSE)

(* filepath.Rel(base, target) of two absolute paths: up from base to the  *)
(* names they share, then down to target                                   *)
Rel(base, target) ==
    LET RECURSIVE Shared(_, _)
        Shared(a, b) ==
            IF a = <<>> \/ b = <<>> THEN 0
            ELSE IF Head(a) # Head(b) THEN 0
            ELSE 1 + Shared(Tail(a), Tail(b))
    IN  IF base = target THEN <<".">>
        ELSE [i \in 1..(Len(base) - Shared(base, target)) |-> ".."]
             \o SubSeq(target, Shared(base, target) + 1, Len(target))

(* buildYmlTree, the entries of the result for the disk entry x below the  *)
(* directory base: entry.Info does not follow a symlink, and the value of  *)
(* a symlink is the one os.Readlink returns, made relative to the          *)
(* directory that holds it when it is absolute.                            *)
YmlEntry(f, base, x) ==
    CASE f[x].kind = "link" ->
            {<<RelTo(base, x), GoVal("map", <<>>)>>,
             <<Append(RelTo(base, x), "type"), GoVal("string", <<"symlink">>)>>,
             <<Append(RelTo(base, x), "target"),
               GoVal("string", IF f[x].abs THEN Rel(Front(x), f[x].val)
                                           ELSE StrOf(f[x]))>>}
      [] f[x].kind = "dir" ->
            {<<RelTo(base, x),
               IF HasChildren(f, x) THEN GoVal("map", <<>>) ELSE GoVal("nil", <<>>)>>}
      [] OTHER ->
            {<<RelTo(base, x), GoVal("map", <<>>)>>,
             <<Append(RelTo(base, x), "type"), GoVal("string", <<"file">>)>>,
             <<Append(RelTo(base, x), "content"), GoVal("string", f[x].content)>>}

(* buildYmlTree(base): the map of everything below the directory base *)
buildYmlTree(f, base) ==
    Tree({<<Root, GoVal("map", <<>>)>>}
         \cup UNION {YmlEntry(f, base, x) : x \in {y \in DOMAIN f : IsStrictPrefix(base, y)}})

(* ymlfs.ToYml(rootDir) *)
ToYml(f, rootDir) == Marshal(buildYmlTree(f, rootDir))

(* A file and a symlink as the tests write them *)
YFile(k, content) ==
    {<<k, YNode("mapping", <<>>)>>, <<Append(k, "type"), YNode("plain", <<"file">>)>>,
     <<Append(k, "content"), content>>}

YSymlink(k, target) ==
    {<<k, YNode("mapping", <<>>)>>, <<Append(k, "type"), YNode("plain", <<"symlink">>)>>,
     <<Append(k, "target"), YNode("plain", target)>>}

(* The descriptions the round trip is tried on.  Entries F, G and D of the *)
(* top level are each left out or written in one of several ways: F a file *)
(* (or a bare scalar, or a file without content), G a symlink, D a         *)
(* directory written as null, as an empty mapping or with an entry.        *)
YamlInputs ==
    LET dir == <<<<"D">>, YNode("mapping", <<>>)>>
        YmlF == {{}, YFile(<<"F">>, YNode("plain", <<"a">>)),
                 YFile(<<"F">>, YNode("quoted", <<"null">>)),
                 YFile(<<"F">>, YNode("quoted", <<>>)),
                 YFile(<<"F">>, YNode("plain", <<>>)),
                 {<<<<"F">>, YNode("plain", <<"a">>)>>}}
        YmlG == {{}, YSymlink(<<"G">>, <<"F">>), YSymlink(<<"G">>, <<"D", "F">>),
                 YSymlink(<<"G">>, <<"", "X">>)}
        YmlD == {{}, {<<<<"D">>, YNode("plain", <<>>)>>},
                 {<<<<"D">>, YNode("plain", <<"null">>)>>},
                 {dir},
                 {dir} \cup YFile(<<"D", "F">>, YNode("plain", <<"b">>)),
                 {dir, <<<<"D", "D">>, YNode("plain", <<>>)>>},
                 {dir, <<<<"D", "D">>, YNode("mapping", <<>>)>>},
                 {dir} \cup YSymlink(<<"D", "G">>, <<"F">>),
                 {dir} \cup YSymlink(<<"D", "G">>, <<"", "T", "F">>)}
    IN  {Tree({<<Root, YNode("mapping", <<>>)>>} \cup f \cup g \cup d) :
            f \in YmlF, g \in YmlG, d \in YmlD}
        \ {Tree({<<Root, YNode("mapping", <<>>)>>})}

(* The test's temporary directory: T, empty *)
InitYml ==
    /\ ver = "ymlfs"
    /\ fs = Tree({<<Root, DirNode>>, <<T, DirNode>>})
    /\ cwd = T
    /\ cfg = [force |-> FALSE, createDirs |-> FALSE, confirm |-> FALSE,
              ignore |-> <<>>]
    /\ sourceDir = T
    /\ targetDir = T
    /\ deny = NoDenial
    /\ pc = "idle"
    /\ cmd = NoCmd
    /\ todo = <<>>
    /\ visit = NoVisit
    /\ stats = ZeroStats
    /\ walkErr = FALSE
    /\ hist = [runs |-> 0, fs0 |-> fs, start |-> fs, prev |-> NoCmd,
               declined |-> FALSE, visited |-> {}, unread |-> FALSE,
               killed |-> 0, before |-> fs]
    /\ \E data \in YamlInputs :
          yml = [at |-> "FromYml", yamlData |-> data,
                 stack |-> <<[k |-> Root, rest |-> KeysAt(ToMap(data), Root)]>>,
                 outYaml |-> <<>>]

(* FromYml, one turn of the loop of createStructure: range over a map      *)
(* takes the keys in any order.  An error is returned through every call.  *)
FromYmlEntry ==
    /\ yml.at = "FromYml"
    /\ yml.stack # <<>>
    /\ \E name \in Head(yml.stack).rest :
       \E k \in {Head(yml.stack).k} :
       \E made \in {createStructureEntry(fs, ToMap(yml.yamlData), T \o k, k, name)} :
          /\ fs' = made.fs
          /\ yml' = IF ~made.ok
                    THEN [yml EXCEPT !.at = "failed", !.stack = <<>>]
                    ELSE IF made.descend
                    THEN [yml EXCEPT !.stack =
                            <<[k |-> Append(k, name),
                               rest |-> KeysAt(ToMap(yml.yamlData), Append(k, name))],
                              [k |-> k, rest |-> Head(yml.stack).rest \ {name}]>>
                            \o Tail(yml.stack)]
                    ELSE [yml EXCEPT !.stack =
                            <<[k |-> k, rest |-> Head(yml.stack).rest \ {name}]>>
                            \o Tail(yml.stack)]
    /\ UNCHANGED <<ver, cwd, cfg, sourceDir, targetDir, pc, cmd, todo, visit,
                   stats, walkErr, hist, deny>>

(* createStructure has gone through its map and returns nil; the return of *)
(* the outermost call is the return of FromYml                             *)
FromYmlReturn ==
    /\ yml.at = "FromYml"
    /\ yml.stack # <<>>
    /\ Head(yml.stack).rest = {}
    /\ yml' = [yml EXCEPT !.stack = Tail(yml.stack),
                          !.at = IF Tail(yml.stack) = <<>> THEN "created" ELSE @]
    /\ UNCHANGED <<ver, fs, cwd, cfg, sourceDir, targetDir, pc, cmd, todo, visit,
                   stats, walkErr, hist, deny>>

(* applyAndCheckRoundTrip: ToYml(tmpDir) after FromYml *)
ToYmlRead ==
    /\ yml.at = "created"
    /\ yml' = [yml EXCEPT !.at = "read", !.outYaml = ToYml(fs, T)]
    /\ UNCHANGED <<ver, fs, cwd, cfg, sourceDir, targetDir, pc, cmd, todo, visit,
                   stats, walkErr, hist, deny>>

NextYml == FromYmlEntry \/ FromYmlReturn \/ ToYmlRead

SpecYml == InitYml /\ [][NextYml]_vars

(* The entries of a description: every key but the attributes of a file   *)
(* or of a symlink                                                         *)
YmlEntries(node) ==
    {k \in DOMAIN node : k # <<>> /\ Base(k) \notin {"type", "content", "target"}}

YIsFile(node, k) ==
    /\ node[k].t = "map"
    /\ StringAt(node, k, "type").s = <<"file">>
    /\ StringAt(node, k, "content").ok

YIsRelSymlink(node, k) ==
    /\ node[k].t = "map"
    /\ StringAt(node, k, "type").s = <<"symlink">>
    /\ StringAt(node, k, "target").ok
    /\ StringAt(node, k, "target").s # <<>>
    /\ StringAt(node, k, "target").s[1] # ""

YIsDir(node, k) ==
    \/ node[k].t = "nil"
    \/ node[k].t = "map" /\ Append(k, "type") \notin DOMAIN node

(* A description made of regular files, directories and symlinks with     *)
(* relative targets                                                        *)
YmlOfFilesDirsLinks(node) ==
    \A k \in YmlEntries(node) :
        YIsFile(node, k) \/ YIsRelSymlink(node, k) \/ YIsDir(node, k)

(* No directory of the description is written as an empty mapping *)
YmlNoEmptyMapping(node) ==
    \A k \in YmlEntries(node) : node[k].t = "map" => KeysAt(node, k) # {}

(* The round trip gave the description back, and the symlinks of the      *)
(* description are symlinks on disk that hold the value written            *)
RoundTripEqual(node) ==
    /\ yml.at = "read"
    /\ ToMap(yml.outYaml) = node
    /\ \A k \in YmlEntries(node) :
          YIsRelSymlink(node, k)
             => /\ T \o k \in DOMAIN fs
                /\ fs[T \o k].kind = "link"
                /\ StrOf(fs[T \o k]) = StringAt(node, k, "target").s

---------------------------------------------------------------------------
(* The source tree, the target root and what is left alone *)

(* The files and directories under the source root when the behaviour began *)
SourceReal == {q \in SourceEntries : hist.fs0[q].kind \in {"file", "dir"}}

(* C34: whatever link, unlink and stats runs are made, with whatever       *)
(* policies, every file and every directory that was under the source root *)
(* before them is still there, with the same kind and the same content.    *)
C34_SourceNeverChanged ==
    \A q \in SourceReal :
        /\ q \in DOMAIN fs
        /\ fs[q].kind = hist.fs0[q].kind
        /\ fs[q].content = hist.fs0[q].content

(* The root pair is not handed to the handler, and in a link run the entry *)
(* that was at the target root when the run began is still the same        *)
RootPassedOver ==
    /\ ~(visit.called /\ visit.src = sourceDir)
    /\ (cmd.name = "link" /\ targetDir \in DOMAIN hist.start)
          => (targetDir \in DOMAIN fs /\ fs[targetDir] = hist.start[targetDir])

ChangedAt(x) == ~(x \in DOMAIN fs /\ x \in DOMAIN fs' /\ fs[x] = fs'[x])

(* x is the target path the step visited or lies below it, or a directory  *)
(* that link made above it with createDirs                                 *)
AtVisitedTarget(x) ==
    /\ visit'.called
    /\ \/ IsPrefix(visit'.tgt, x)
       \/ /\ cmd.name = "link"
          /\ cfg.createDirs
          /\ IsStrictPrefix(x, visit'.tgt)
          /\ x \notin DOMAIN fs
          /\ fs'[x].kind = "dir"

(* C36: a step of the walk of link or unlink changes the target tree only  *)
(* at the target path of the source entry it visits (and, for link with    *)
(* createDirs, by making the missing directories above it); every other    *)
(* entry under the target root, the source root and what it holds included *)
(* when it lies inside the target root, is the same after the step.        *)
C36_OnlyVisitedTargetsChange ==
    [][(pc = "walk" /\ cmd.name \in {"link", "unlink"} /\ visit'.n # visit.n)
          => \A x \in DOMAIN fs \cup DOMAIN fs' :
                (IsPrefix(targetDir, x) /\ ChangedAt(x))
                    => (~IsPrefix(sourceDir, x) /\ AtVisitedTarget(x))]_vars

---------------------------------------------------------------------------
(* Missing parents, directories of the source, and who visits what *)

(* This step is a visit of link to an entry whose target path is Missing   *)
(* and whose parent directory is not there, and no permission is denied    *)
MissingParentVisit ==
    /\ LinkVisit
    /\ visit'.state = "Missing"
    /\ ~PathExists(fs, Front(visit'.tgt))
    /\ deny = NoDenial

(* C37: when link handles an entry whose target path is Missing and whose  *)
(* parent directory does not exist, then with createDirs the parent is a   *)
(* directory afterwards and the target path a symlink to the source entry, *)
(* and without createDirs the filesystem is left as it is, the failure is  *)
(* reported and the walk goes on.                                          *)
C37_MissingParent ==
    [][MissingParentVisit
          => IF cfg.createDirs
             THEN /\ IsLinkTo(fs', visit'.tgt, visit'.src)
                  /\ IsDir(fs', Front(visit'.tgt))
                  /\ ~IsSymlink(fs', Front(visit'.tgt))
                  /\ ~visit'.reported
             ELSE /\ fs' = fs
                  /\ visit'.reported
                  /\ WalkGoesOn]_vars

(* The target paths of the directories the source tree held when the run  *)
(* began, at which the run found something                                 *)
TargetsOfSourceDirs ==
    {Join(targetDir, RelTo(sourceDir, q)) :
        q \in {x \in DOMAIN hist.start :
                 IsPrefix(sourceDir, x) /\ hist.start[x].kind = "dir"}}
    \cap DOMAIN hist.start

(* C38: in a link run with recursive and without fold, whatever was at the *)
(* target path of a source directory when the run began (a directory, a    *)
(* file or a symlink) is the same in every state of the run, whatever its  *)
(* classified state and whatever force is.                                 *)
C38_DirTargetsKept ==
    (cmd.name = "link" /\ cmd.recursive /\ ~cmd.fold)
        => \A t \in TargetsOfSourceDirs : t \in DOMAIN fs /\ fs[t] = hist.start[t]

(* The directories of the source tree at whose target path a real          *)
(* directory is, no symlink                                                *)
DirOnDir ==
    {p \in SourcePaths :
        /\ fs[p].kind = "dir"
        /\ IsDir(fs, Join(targetDir, RelTo(sourceDir, p)))
        /\ ~IsSymlink(fs, Join(targetDir, RelTo(sourceDir, p)))}

(* C39 as stated: a real directory at the target path of a source          *)
(* directory is classified ExistsModified, whatever the two hold.          *)
C39_DirOnDirModifiedAsStated ==
    \A p \in DirOnDir : ClassOf(p).ok /\ ClassOf(p).state = "ExistsModified"

(* C39: a real directory at the target path of a source directory is never *)
(* classified ExistsIdentical, and is classified ExistsModified whenever   *)
(* the classification succeeds and the name of the directory matches no    *)
(* pattern of the ignore list.                                             *)
C39_DirOnDirModified ==
    \A p \in DirOnDir : \A c \in {ClassOf(p)} :
        /\ c.state # "ExistsIdentical"
        /\ (c.ok /\ ~IgnoredName(Base(p))) => c.state = "ExistsModified"

(* link has visited the source directory D while T/D was a real directory  *)
(* that held the same file G, and it came out ExistsModified               *)
C39_Witness ==
    /\ cmd.name = "link"
    /\ visit.called
    /\ visit.isDir
    /\ visit.src = R \o <<"D">>
    /\ visit.tgt = TD
    /\ visit.state = "ExistsModified"
    /\ TD \in DOMAIN hist.start
    /\ hist.start[TD].kind = "dir"
    /\ TDG \in DOMAIN hist.start
    /\ hist.start[TDG] = hist.start[R \o <<"D", "G">>]

(* The source entries the handler of the command c is called with, by     *)
(* filepath.Walk from the entries td on, run to its end with every        *)
(* question answered yes.                                                 *)
RECURSIVE VisitedAll(_, _, _)
VisitedOn(r, f, td, isDir, c) ==
    (IF r.v.called THEN {Head(td)} ELSE {})
        \cup (IF r.verdict = "err" THEN {}
              ELSE VisitedAll(r.fs,
                              IF r.verdict = "nil" /\ isDir
                              THEN Children(f, Head(td)) \o Tail(td) ELSE Tail(td),
                              c))

VisitedEntry(info, f, td, c) ==
    IF ~info.ok \/ Unlistable(f, Head(td), info) THEN {}
    ELSE VisitedOn(Callback(f, ZeroStats, Head(td), Kind(f, info) = "dir", c, cfg, TRUE),
                   f, td, Kind(f, info) = "dir", c)

VisitedAll(f, td, c) ==
    IF td = <<>> THEN {}
    ELSE VisitedEntry(Lstat(f, Head(td)), f, td, c)

(* The entries a whole run of the command name visits from the filesystem *)
(* of the state; unlink and stats are given neither recursive nor fold.   *)
VisitedBy(name, rec, fold) ==
    VisitedAll(fs, <<sourceDir>>,
               [name |-> name,
                recursive |-> (name = "link" /\ rec),
                fold |-> (name = "link" /\ fold)])

(* C40: from the same filesystem, with the same roots and ignore list,    *)
(* unlink and stats visit the very source entries link visits, whatever   *)
(* recursive and fold are for link.                                       *)
C40_OneRecursionPolicy ==
    (ver = "lnkit" /\ pc = "idle" /\ hist.runs = 0 /\ RootsValid(fs))
        => \A rec \in BOOLEAN, fold \in BOOLEAN :
              \A l \in {VisitedBy("link", rec, fold)} :
                  /\ VisitedBy("unlink", rec, fold) = l
                  /\ VisitedBy("stats", rec, fold) = l

============================================================================
